---- MODULE Spec2Model ----
(***************************************************************************)
(* Diagram layout and interaction engine of the agent architecture        *)
(* diagram: buildDiagramLayout, computeAutoLayout, computeSnapGuides and   *)
(* the AgentArchitectureDiagram controller (align, distribute, drag,       *)
(* debounced position persistence).                                        *)
(*                                                                         *)
(* Numbers: the source computes in JavaScript numbers.  Coordinates are    *)
(* modelled as exact rationals [n, d] in lowest terms (d > 0), i.e. the    *)
(* real values the floating-point results approximate; IEEE rounding is    *)
(* not modelled.  Node sizes are integer pixel constants.                  *)
(*                                                                         *)
(* Optional fields: a JavaScript object is a function from field names,    *)
(* a missing (undefined) field is a name outside its DOMAIN.               *)
(***************************************************************************)
EXTENDS Integers, Sequences, FiniteSets, TLC

VARIABLES
  \* --- one call of the layout engine (buildDiagramLayout / computeAutoLayout)
  lSpec,      \* the specification passed
  lMode,      \* the view mode passed
  lSaved,     \* the savedPositions passed
  lResult,    \* the {nodes, edges} returned
  lCall,      \* which call produced lResult: "none", "default", "override", "auto"

  \* --- one call of the snap engine (computeSnapGuides)
  sAll,       \* allNodes: every node on the canvas, in array order
  sDragging,  \* draggingNodes: the dragged nodes at their proposed positions
  sResult,    \* the {lines, snapDx, snapDy} returned
  sCall,      \* "none" before the call, "snap" after it
  \* --- the AgentArchitectureDiagram controller of one mounted diagram
  mounted,           \* the component is mounted
  spec,              \* the spec prop: the parent's current specification
  serverSpec,        \* the specification held by the remote service
  viewMode,          \* state viewMode
  nodes,             \* state nodes (useNodesState), mirrored by nodesRef
  edges,             \* state edges (useEdgesState)
  positionsRef,      \* positionsRef.current: node id -> {x, y}
  positionsAliased,  \* positionsRef.current is the object spec.node_positions
  positionSaveTimer, \* TRUE while the debounce timer is pending
  liveTimers,        \* number of setTimeout callbacks scheduled and not yet run
  burst,             \* the drag-stops since the debounce timer was last idle
  requests,          \* updateSpec calls awaiting their response, oldest first
  isSaving,          \* state isSaving
  selectionCount,    \* state selectionCount
  snapLines,         \* state snapLines
  dragItems,         \* React Flow's drag in flight: node id -> proposed position
  lastEvent,         \* the last user event handled
  nEvents,           \* number of user events handled so far
  \* --- the forms of the NodeDetailPanel on one specification
  fSpec,      \* the spec prop of the panel
  fNode,      \* panelNodeId: the id of the node whose panel is open, "" for null
  fForm,      \* the form that is open: kind, index, sysIndex
  fState,     \* the state of the open form (useState of every field)
  fTyped,     \* the fields the user has edited in the open form
  fPatch,     \* the patch last passed to onSave
  fEdits,     \* the saves so far: form, state, typed fields, spec before
  \* --- one instance of the event-stream hook and the store it feeds
  hookMounted,         \* the component that uses the hook is mounted
  useCaseId,           \* the useCaseId prop of the last render
  mountedRef,          \* mountedRef.current
  sockets,             \* every WebSocket the hook created, in creation order
  wsRef,               \* wsRef.current: an index of sockets, 0 for null
  reconnectTimeoutRef, \* reconnectTimeoutRef.current: a timer id, 0 for null
  wsTimers,            \* reconnect timers scheduled and not yet run or cleared
  store,               \* chatMessages, streamingText, isStreaming of the store
  stRun,               \* the text_delta events since the last message_complete
  wsLast               \* the last socket handler that ran

layoutVars == <<lSpec, lMode, lSaved, lResult, lCall>>
snapVars   == <<sAll, sDragging, sResult, sCall>>
ctlVars    == <<mounted, spec, serverSpec, viewMode, nodes, edges, positionsRef,
                positionsAliased, positionSaveTimer, liveTimers, burst, requests,
                isSaving, selectionCount, snapLines, dragItems, lastEvent, nEvents>>
formVars   == <<fSpec, fNode, fForm, fState, fTyped, fPatch, fEdits>>
hookVars   == <<hookMounted, useCaseId, mountedRef, sockets, wsRef, reconnectTimeoutRef,
                wsTimers, store, stRun, wsLast>>
vars == <<layoutVars, snapVars, ctlVars, formVars, hookVars>>

\* ------------------------------------------------------------------------
\* Exact arithmetic on JavaScript numbers
\* ------------------------------------------------------------------------

AbsInt(i) == IF i < 0 THEN -i ELSE i

RECURSIVE GCD(_, _)
GCD(a, b) == IF b = 0 THEN a ELSE GCD(b, a % b)

\* the rational n/d (d # 0) in lowest terms with positive denominator
Norm(n, d) ==
  LET s == IF d < 0 THEN -1 ELSE 1
      g == GCD(AbsInt(n), AbsInt(d))
  IN  [n |-> (s * n) \div g, d |-> (s * d) \div g]

Rat(i)       == [n |-> i, d |-> 1]
RAdd(a, b)   == Norm(a.n * b.d + b.n * a.d, a.d * b.d)
RSub(a, b)   == Norm(a.n * b.d - b.n * a.d, a.d * b.d)
RDivI(a, k)  == Norm(a.n, a.d * k)
RLt(a, b)    == a.n * b.d < b.n * a.d
RLe(a, b)    == a.n * b.d <= b.n * a.d
RAbs(a)      == [n |-> AbsInt(a.n), d |-> a.d]
RMinOf(S)    == CHOOSE m \in S : \A e \in S : RLe(m, e)
RMaxOf(S)    == CHOOSE m \in S : \A e \in S : RLe(e, m)
MaxInt(a, b) == IF a >= b THEN a ELSE b

\* ------------------------------------------------------------------------
\* buildDiagramLayout: dimensions, spacing and zone positions
\* ------------------------------------------------------------------------

AGENT_W  == 280
AGENT_H  == 140
INPUT_W  == 160
INPUT_H  == 60
PROMPT_W == 180
PROMPT_H == 70
TOOL_W   == 200
TOOL_H   == 90
SYS_W    == 160
SYS_H    == 50
OUTPUT_W == 180
OUTPUT_H == 70

H_GAP          == 80
V_GAP          == 30
SYS_V_GAP      == 16
PROMPT_H_GAP   == 12
OUTPUT_H_GAP   == 12
PROMPT_TOP     == 30
PROMPT_TO_MAIN == 60
MAIN_TO_OUTPUT == 60

INPUT_X == 60
AGENT_X == INPUT_X + INPUT_W + H_GAP
TOOL_X  == AGENT_X + AGENT_W + H_GAP
SYS_X   == TOOL_X + TOOL_W + H_GAP

CONTENT_CENTER_X == RDivI(Rat(INPUT_X + SYS_X + SYS_W), 2)

ViewModes == {"architecture", "token_economics"}

\* a position map with no entry; an undefined savedPositions argument reads
\* the same through saved?.[nodeId]
NoPositions == [k \in {} |-> TRUE]

\* obj.field ?? dflt
OrElse(obj, field, dflt) == IF field \in DOMAIN obj THEN obj[field] ELSE dflt

Pos(x, y) == [x |-> x, y |-> y]

\* mutant: the saved position is ignored
resolvePosIgnoringSaved(nodeId, defaultX, defaultY, saved) == Pos(defaultX, defaultY)

resolvePos(nodeId, defaultX, defaultY, saved) ==
  IF nodeId \in DOMAIN saved THEN saved[nodeId] ELSE Pos(defaultX, defaultY)

\* left-edge X of each of count items of width itemW centred at centreX
spreadCentred(count, itemW, minGap, centreX) ==
  IF count = 0 THEN <<>>
  ELSE LET spacing == itemW + minGap
           groupW  == count * itemW + (count - 1) * minGap
           startX  == RSub(centreX, RDivI(Rat(groupW), 2))
       IN  [i \in 1..count |-> RAdd(startX, Rat((i - 1) * spacing))]

Node(id, type, position, width, height) ==
  [id |-> id, type |-> type, position |-> position,
   width |-> width, height |-> height]

\* an edge; label is present only when the source gives it a value
Edge(id, source, target, style, labelled, label) ==
  IF labelled
  THEN [id |-> id, source |-> source, target |-> target, style |-> style,
        label |-> label]
  ELSE [id |-> id, source |-> source, target |-> target, style |-> style]

RECURSIVE Flatten(_)
Flatten(ss) == IF ss = <<>> THEN <<>> ELSE Head(ss) \o Flatten(Tail(ss))

\* mutant: the height of a stack leaves out the gaps between the systems
sStackHNoGaps(tool) == Len(OrElse(tool, "connected_systems", <<>>)) * SYS_H

\* sStackH of a tool: height of its stack of connected systems
sStackH(tool) ==
  LET sCount == Len(OrElse(tool, "connected_systems", <<>>))
  IN  IF sCount > 0 THEN sCount * SYS_H + (sCount - 1) * SYS_V_GAP ELSE 0

\* mutant: a tool group is as high as the tool node, whatever its systems
effectiveHToolOnly(tool) == TOOL_H

effectiveH(tool) == MaxInt(TOOL_H, sStackH(tool))

\* the loop of step 2: toolGroups and toolColH after tools ti..Len(tools)
RECURSIVE toolGroupsLoop(_, _, _, _)
toolGroupsLoop(tools, ti, groups, toolColH) ==
  IF ti > Len(tools)
  THEN [toolGroups |-> groups, toolColH |-> toolColH]
  ELSE LET eH == effectiveH(tools[ti])
       IN  toolGroupsLoop(tools, ti + 1,
             Append(groups, [effectiveH   |-> eH,
                             centerOffset |-> RAdd(Rat(toolColH), RDivI(Rat(eH), 2))]),
             toolColH + eH + (IF ti < Len(tools) THEN V_GAP ELSE 0))

\* mutant: a guardrail gets the id of the dynamic-context entry of its index
promptComponentsSharedIds(pr) ==
  LET dyn == OrElse(pr, "dynamic_context", <<>>)
      grd == OrElse(pr, "guardrails", <<>>)
  IN  (IF "system_prompt" \in DOMAIN pr
       THEN << [id |-> "prompt-system",
                tokens |-> OrElse(pr.system_prompt, "estimated_tokens", 0)] >>
       ELSE <<>>)
      \o [i \in 1..Len(dyn) |->
            [id |-> "prompt-dynamic-" \o ToString(i - 1),
             tokens |-> OrElse(dyn[i], "estimated_tokens_per_call", 0)]]
      \o (IF "few_shot_examples" \in DOMAIN pr
          THEN << [id |-> "prompt-fewshot",
                   tokens |-> OrElse(pr.few_shot_examples, "estimated_tokens", 0)] >>
          ELSE <<>>)
      \o [i \in 1..Len(grd) |->
            [id |-> "prompt-dynamic-" \o ToString(i - 1),
             tokens |-> OrElse(grd[i], "estimated_tokens", 0)]]

\* the prompt components of step 5 in emission order: id and token count
promptComponents(pr) ==
  LET dyn == OrElse(pr, "dynamic_context", <<>>)
      grd == OrElse(pr, "guardrails", <<>>)
  IN  (IF "system_prompt" \in DOMAIN pr
       THEN << [id |-> "prompt-system",
                tokens |-> OrElse(pr.system_prompt, "estimated_tokens", 0)] >>
       ELSE <<>>)
      \o [i \in 1..Len(dyn) |->
            [id |-> "prompt-dynamic-" \o ToString(i - 1),
             tokens |-> OrElse(dyn[i], "estimated_tokens_per_call", 0)]]
      \o (IF "few_shot_examples" \in DOMAIN pr
          THEN << [id |-> "prompt-fewshot",
                   tokens |-> OrElse(pr.few_shot_examples, "estimated_tokens", 0)] >>
          ELSE <<>>)
      \o [i \in 1..Len(grd) |->
            [id |-> "prompt-guardrail-" \o ToString(i - 1),
             tokens |-> OrElse(grd[i], "estimated_tokens", 0)]]

buildDiagramLayout(agentSpec, mode, savedPositions) ==
  LET agentId == "agent-" \o agentSpec.id
      pr      == OrElse(agentSpec, "prompt_requirements", [k \in {} |-> TRUE])
      inputs  == OrElse(agentSpec, "input_channels", <<>>)
      tools   == OrElse(agentSpec, "tool_stack", <<>>)
      outputs == OrElse(agentSpec, "output_channels", <<>>)
      econ    == mode = "token_economics"
      \* 1. prompt nodes
      prompts     == promptComponents(pr)
      promptCount == Len(prompts)
      \* 2. column heights
      inputColH == IF Len(inputs) > 0
                   THEN Len(inputs) * INPUT_H + (Len(inputs) - 1) * V_GAP
                   ELSE 0
      tg         == toolGroupsLoop(tools, 1, <<>>, 0)
      toolGroups == tg.toolGroups
      toolColH   == tg.toolColH
      \* 3. Y anchors
      mainRowH   == MaxInt(MaxInt(AGENT_H, inputColH), MaxInt(toolColH, 1))
      mainRowTop == PROMPT_TOP + (IF promptCount > 0 THEN PROMPT_H + PROMPT_TO_MAIN ELSE 0)
      outputTop  == mainRowTop + mainRowH + MAIN_TO_OUTPUT
      \* 4. agent node
      agentY     == RAdd(Rat(mainRowTop), RDivI(Rat(mainRowH - AGENT_H), 2))
      agentNodes == << Node(agentId, "agentNode",
                            resolvePos(agentId, Rat(AGENT_X), agentY, savedPositions),
                            AGENT_W, AGENT_H) >>
      \* 5. prompt component nodes
      promptXs    == spreadCentred(promptCount, PROMPT_W, PROMPT_H_GAP, CONTENT_CENTER_X)
      promptNodes == [c \in 1..promptCount |->
                        Node(prompts[c].id, "promptComponentNode",
                             resolvePos(prompts[c].id, promptXs[c], Rat(PROMPT_TOP),
                                        savedPositions),
                             PROMPT_W, PROMPT_H)]
      promptEdges == [c \in 1..promptCount |->
                        Edge("e-" \o prompts[c].id \o "-agent", prompts[c].id, agentId,
                             "prompt", econ, ToString(prompts[c].tokens) \o "t")]
      \* 6. input channel nodes
      inputGroupTop == RAdd(Rat(mainRowTop), RDivI(Rat(mainRowH - inputColH), 2))
      inputId(i)    == "input-" \o ToString(i - 1)
      inputNodes == [i \in 1..Len(inputs) |->
                       Node(inputId(i), "inputChannelNode",
                            resolvePos(inputId(i), Rat(INPUT_X),
                                       RAdd(inputGroupTop, Rat((i - 1) * (INPUT_H + V_GAP))),
                                       savedPositions),
                            INPUT_W, INPUT_H)]
      inputEdges == [i \in 1..Len(inputs) |->
                       Edge("e-" \o inputId(i) \o "-agent", inputId(i), agentId, "io", econ,
                            ToString(OrElse(inputs[i], "estimated_tokens_per_call", 0)) \o "t")]
      \* 7. tool nodes and their system nodes
      toolGroupStart  == RAdd(Rat(mainRowTop), RDivI(Rat(mainRowH - toolColH), 2))
      toolId(ti)      == "tool-" \o ToString(ti - 1)
      sysId(ti, si)   == "system-" \o ToString(ti - 1) \o "-" \o ToString(si - 1)
      toolCenterY(ti) == RAdd(toolGroupStart, toolGroups[ti].centerOffset)
      toolTopY(ti)    == RSub(toolCenterY(ti), RDivI(Rat(TOOL_H), 2))
      connected(ti)   == OrElse(tools[ti], "connected_systems", <<>>)
      sGroupTop(ti)   == RSub(toolCenterY(ti), RDivI(Rat(sStackH(tools[ti])), 2))
      toolGroupNodes(ti) ==
        << Node(toolId(ti), "toolNode",
                resolvePos(toolId(ti), Rat(TOOL_X), toolTopY(ti), savedPositions),
                TOOL_W, TOOL_H) >>
        \o [si \in 1..Len(connected(ti)) |->
              Node(sysId(ti, si), "systemNode",
                   resolvePos(sysId(ti, si), Rat(SYS_X),
                              RAdd(sGroupTop(ti), Rat((si - 1) * (SYS_H + SYS_V_GAP))),
                              savedPositions),
                   SYS_W, SYS_H)]
      toolGroupEdges(ti) ==
        << Edge("e-agent-" \o toolId(ti), agentId, toolId(ti), "tool", econ,
                "in" \o ToString(OrElse(tools[ti], "input_tokens_per_call", 0))
                  \o " out" \o ToString(OrElse(tools[ti], "output_tokens_per_call", 0))) >>
        \o [si \in 1..Len(connected(ti)) |->
              Edge("e-" \o toolId(ti) \o "-" \o sysId(ti, si), toolId(ti), sysId(ti, si),
                   "tool", FALSE, "")]
      \* 8. output channel nodes
      outputXs    == spreadCentred(Len(outputs), OUTPUT_W, OUTPUT_H_GAP, CONTENT_CENTER_X)
      outputId(i) == "output-" \o ToString(i - 1)
      outputNodes == [i \in 1..Len(outputs) |->
                        Node(outputId(i), "outputChannelNode",
                             resolvePos(outputId(i), outputXs[i], Rat(outputTop),
                                        savedPositions),
                             OUTPUT_W, OUTPUT_H)]
      outputEdges == [i \in 1..Len(outputs) |->
                        Edge("e-agent-" \o outputId(i), agentId, outputId(i), "io",
                             econ /\ OrElse(outputs[i], "estimated_tokens", 0) > 0,
                             ToString(OrElse(outputs[i], "estimated_tokens", 0)) \o "t")]
  IN  [nodes |-> agentNodes \o promptNodes \o inputNodes
                   \o Flatten([ti \in 1..Len(tools) |-> toolGroupNodes(ti)])
                   \o outputNodes,
       edges |-> promptEdges \o inputEdges
                   \o Flatten([ti \in 1..Len(tools) |-> toolGroupEdges(ti)])
                   \o outputEdges]

\* the centre of every node, keyed by node id
centresById(laid) ==
  [id \in {laid[i].id : i \in 1..Len(laid)} |->
     LET n == laid[CHOOSE i \in 1..Len(laid) : laid[i].id = id]
     IN  Pos(RAdd(n.position.x, RDivI(Rat(n.width), 2)),
             RAdd(n.position.y, RDivI(Rat(n.height), 2)))]

\* the position of every node, keyed by node id; a later node wins its id
positionsById(laid) ==
  [id \in {laid[i].id : i \in 1..Len(laid)} |->
     LET last == CHOOSE i \in 1..Len(laid) :
                   /\ laid[i].id = id
                   /\ \A j \in 1..Len(laid) : laid[j].id = id => j <= i
     IN  Pos(laid[last].position.x, laid[last].position.y)]

\* mutant: the map records the centre of each node instead of its top-left
computeAutoLayoutCentres(agentSpec) ==
  centresById(buildDiagramLayout(agentSpec, "architecture", NoPositions).nodes)

\* computeAutoLayout: the default position of every node, keyed by node id
computeAutoLayout(agentSpec) ==
  positionsById(buildDiagramLayout(agentSpec, "architecture", NoPositions).nodes)

\* ------------------------------------------------------------------------
\* Specifications (the externally owned document) used as inputs
\* ------------------------------------------------------------------------

MaxInputs   == 2
MaxPromptEntries == 1
MaxTools    == 2
MaxSystems  == 3
MaxOutputs  == 1

\* { ...obj, field: val }
With(obj, field, val) ==
  [k \in DOMAIN obj \cup {field} |-> IF k = field THEN val ELSE obj[k]]

\* obj keeps the field only when keep holds (an optional field left out)
Opt(obj, field, keep, val) == IF keep THEN With(obj, field, val) ELSE obj

ConnectedSystem(si) == [name |-> "sys" \o ToString(si)]

Tool(ti, sCount, sparse) ==
  Opt([name |-> "tool" \o ToString(ti),
       input_tokens_per_call |-> 200, output_tokens_per_call |-> 50],
      "connected_systems", sCount > 0 \/ ~sparse,
      [si \in 1..sCount |-> ConnectedSystem(si - 1)])

PromptRequirements(hasSystem, nDyn, hasFewShot, nGuard, sparse) ==
  Opt(Opt(Opt(Opt([k \in {} |-> TRUE],
    "system_prompt", hasSystem, [estimated_tokens |-> 800, cache_hit_pct |-> 95]),
    "dynamic_context", nDyn > 0 \/ ~sparse,
       [i \in 1..nDyn |-> [name |-> "ctx" \o ToString(i - 1),
                           estimated_tokens_per_call |-> 120]]),
    "few_shot_examples", hasFewShot, [estimated_tokens |-> 400]),
    "guardrails", nGuard > 0 \/ ~sparse,
       [i \in 1..nGuard |-> [type |-> "pii", estimated_tokens |-> 60]])

\* An AgentSpecification.  sysCounts[ti] is the number of connected systems
\* of tool ti; with sparse every empty collection is missing instead of [].
MkSpec(nIn, hasSystem, nDyn, hasFewShot, nGuard, sysCounts, nOut, sparse) ==
  Opt(Opt(Opt(Opt([id |-> "s1", name |-> "agent"],
    "input_channels", nIn > 0 \/ ~sparse,
       [i \in 1..nIn |-> [name |-> "in" \o ToString(i - 1),
                          estimated_tokens_per_call |-> 30]]),
    "prompt_requirements", hasSystem \/ hasFewShot \/ nDyn + nGuard > 0 \/ ~sparse,
       PromptRequirements(hasSystem, nDyn, hasFewShot, nGuard, sparse)),
    "tool_stack", Len(sysCounts) > 0 \/ ~sparse,
       [ti \in 1..Len(sysCounts) |-> Tool(ti - 1, sysCounts[ti], sparse)]),
    "output_channels", nOut > 0 \/ ~sparse,
       [i \in 1..nOut |-> [name |-> "out" \o ToString(i - 1),
                           estimated_tokens |-> (i - 1) * 40]])

\* connected-system counts of one tool: none, or a stack taller than the tool
SystemCounts == {0, MaxSystems}

SysCountSeqs == UNION {[1..n -> SystemCounts] : n \in 0..MaxTools}

\* specifications whose collections are all present; dynamic-context entries
\* and guardrails together number at most MaxPromptEntries
DenseSpecs ==
  {MkSpec(nIn, sp, nDyn, fs, IF nDyn + nG <= MaxPromptEntries THEN nG ELSE 0,
          sc, nOut, FALSE) :
     nIn \in 0..MaxInputs, sp \in BOOLEAN, fs \in BOOLEAN,
     nDyn \in 0..MaxPromptEntries, nG \in 0..MaxPromptEntries,
     sc \in SysCountSeqs, nOut \in 0..MaxOutputs}

\* specifications in which every empty collection is missing; a tool may
\* own a stack of one system, lower than the tool node
SparseSpecs ==
  {MkSpec(nIn, sp, nDyn, fs, nG, sc, nOut, TRUE) :
     nIn \in 0..1, sp \in BOOLEAN, nDyn \in 0..1, fs \in BOOLEAN,
     nG \in 0..1, sc \in {<<>>, <<0>>, <<1>>}, nOut \in 0..1}

LayoutSpecs == DenseSpecs \cup SparseSpecs

\* positions a caller may have saved for one node
OverridePositions == {Pos(Norm(1881, 2), Rat(-40))}

NodeIds(ns) == {ns[i].id : i \in 1..Len(ns)}

\* ------------------------------------------------------------------------
\* computeSnapGuides
\* ------------------------------------------------------------------------

SNAP_THRESHOLD == 8

\* n.measured?.width ?? n.width ?? 0
nodeW(n) == IF "measured" \in DOMAIN n THEN n.measured.width ELSE OrElse(n, "width", 0)
nodeH(n) == IF "measured" \in DOMAIN n THEN n.measured.height ELSE OrElse(n, "height", 0)

SeqRange(q) == {q[i] : i \in 1..Len(q)}

\* bounding box of a non-empty sequence of nodes
getBBox(ns) ==
  LET left   == RMinOf({n.position.x : n \in SeqRange(ns)})
      top    == RMinOf({n.position.y : n \in SeqRange(ns)})
      right  == RMaxOf({RAdd(n.position.x, Rat(nodeW(n))) : n \in SeqRange(ns)})
      bottom == RMaxOf({RAdd(n.position.y, Rat(nodeH(n))) : n \in SeqRange(ns)})
  IN  [left |-> left, top |-> top, right |-> right, bottom |-> bottom,
       cx |-> RDivI(RAdd(left, right), 2), cy |-> RDivI(RAdd(top, bottom), 2)]

\* key edges of a single node
getEdges(n) ==
  [left   |-> n.position.x,
   right  |-> RAdd(n.position.x, Rat(nodeW(n))),
   cx     |-> RAdd(n.position.x, RDivI(Rat(nodeW(n)), 2)),
   top    |-> n.position.y,
   bottom |-> RAdd(n.position.y, Rat(nodeH(n))),
   cy     |-> RAdd(n.position.y, RDivI(Rat(nodeH(n)), 2))]

\* [bbox value, reference value] pairs tested on each axis, in order
xPairs(bbox, r) ==
  << <<bbox.left, r.left>>, <<bbox.left, r.right>>, <<bbox.cx, r.cx>>,
     <<bbox.right, r.right>>, <<bbox.right, r.left>> >>

\* mutant: the first Y pair was copied from the X pairs and still reads left
yPairsLeftForTop(bbox, r) ==
  << <<bbox.left, r.top>>, <<bbox.top, r.bottom>>, <<bbox.cy, r.cy>>,
     <<bbox.bottom, r.bottom>>, <<bbox.bottom, r.top>> >>

yPairs(bbox, r) ==
  << <<bbox.top, r.top>>, <<bbox.top, r.bottom>>, <<bbox.cy, r.cy>>,
     <<bbox.bottom, r.bottom>>, <<bbox.bottom, r.top>> >>

\* mutant: a pair at the same distance replaces the best
snapCloserOrEqual(dist, min) == RLe(dist, min)

\* the test  dist < minDX  that makes a pair the new best
snapCloser(dist, min) == RLt(dist, min)

\* best so far on one axis: found is FALSE while delta and linePos are null
NoBest(threshold) ==
  [min |-> threshold, found |-> FALSE, delta |-> Rat(0), linePos |-> Rat(0)]

\* the inner loop over the pairs k..Len(pairs) of one reference node
RECURSIVE pairLoop(_, _, _)
pairLoop(pairs, k, best) ==
  IF k > Len(pairs) THEN best
  ELSE LET dval == pairs[k][1]
           rval == pairs[k][2]
           dist == RAbs(RSub(dval, rval))
       IN  pairLoop(pairs, k + 1,
             IF snapCloser(dist, best.min)
             THEN [min |-> dist, found |-> TRUE, delta |-> RSub(rval, dval),
                   linePos |-> rval]
             ELSE best)

\* the outer loop over the reference nodes o..Len(others)
RECURSIVE othersLoop(_, _, _, _)
othersLoop(others, o, bbox, best) ==
  IF o > Len(others) THEN best
  ELSE LET r == getEdges(others[o])
       IN  othersLoop(others, o + 1, bbox,
                      [x |-> pairLoop(xPairs(bbox, r), 1, best.x),
                       y |-> pairLoop(yPairs(bbox, r), 1, best.y)])

\* mutant: the dragged nodes are not filtered out of the targets
snapTargetsUnfiltered(draggingNodes, allNodes) == allNodes

\* snap targets: all nodes not currently being dragged, in allNodes order
snapTargets(draggingNodes, allNodes) ==
  LET draggingIds == NodeIds(draggingNodes)
  IN  SelectSeq(allNodes, LAMBDA n : n.id \notin draggingIds)

NoSnap == [lines |-> <<>>, snapDx |-> Rat(0), snapDy |-> Rat(0)]

\* the guide lines and deltas built from the best pair of each axis
snapResult(best) ==
  [lines  |-> (IF best.x.found
               THEN << [type |-> "v", pos |-> best.x.linePos] >> ELSE <<>>)
              \o (IF best.y.found
                  THEN << [type |-> "h", pos |-> best.y.linePos] >> ELSE <<>>),
   snapDx |-> IF best.x.found THEN best.x.delta ELSE Rat(0),
   snapDy |-> IF best.y.found THEN best.y.delta ELSE Rat(0)]

snapAgainst(draggingNodes, others, threshold) ==
  IF Len(others) = 0 \/ Len(draggingNodes) = 0 THEN NoSnap
  ELSE snapResult(othersLoop(others, 1, getBBox(draggingNodes),
                             [x |-> NoBest(threshold), y |-> NoBest(threshold)]))

\* With no dragging node the bounding box is (Infinity, -Infinity, NaN); no
\* distance is then below the threshold.
computeSnapGuides(draggingNodes, allNodes, threshold) ==
  snapAgainst(draggingNodes, snapTargets(draggingNodes, allNodes), threshold)

\* ---- inputs of the snap engine ----

MaxSnapNodes == 3

SnapXs == {Rat(0), Rat(100)}
SnapYs == {Rat(0), Rat(50)}

\* drag offsets: at the threshold, just inside it, fractional, none
SnapOffsetXs == {Rat(-7), Rat(0), Norm(13, 2), Rat(8)}
SnapOffsetYs == {Rat(-7), Rat(0), Rat(8)}

\* node i of the canvas at a position: odd nodes are wide, even nodes small,
\* every third node has been measured smaller than declared
SnapNode(i, pos) ==
  LET base == [id |-> "n" \o ToString(i), position |-> pos,
               width  |-> IF i % 2 = 1 THEN 100 ELSE 14,
               height |-> IF i % 2 = 1 THEN 40 ELSE 14]
  IN  Opt(base, "measured", i % 3 = 0, [width |-> 60, height |-> 20])

SnapCanvases ==
  UNION {{[i \in 1..n |-> SnapNode(i, Pos(xs[i], ys[i]))] :
            xs \in [1..n -> SnapXs], ys \in [1..n -> SnapYs]} : n \in 1..MaxSnapNodes}

\* ------------------------------------------------------------------------
\* NodeDetailPanel: the forms that edit one entry of the specification
\* ------------------------------------------------------------------------

\* an object without a field
Without(obj, field) == [k \in DOMAIN obj \ {field} |-> obj[k]]

\* { ...obj, field: val || undefined }: an empty string leaves the field
\* undefined, and an undefined field is absent from the document
WithOrUndefined(obj, field, val) ==
  IF val = "" THEN Without(obj, field) ELSE With(obj, field, val)

\* { ...a, ...b }
Merge(a, b) == [k \in DOMAIN a \cup DOMAIN b |-> IF k \in DOMAIN b THEN b[k] ELSE a[k]]

\* undefined
Undefined == [undefined |-> TRUE]

\* entries?.[index], index counted from 0
At(entries, index) ==
  IF index + 1 \in 1..Len(entries) THEN entries[index + 1] ELSE Undefined

\* { ...entry }: undefined spreads no field
Spread(entry) == IF entry = Undefined THEN [k \in {} |-> TRUE] ELSE entry

\* updated[index] = entry, index counted from 0: an index at or past the
\* length extends the array, the holes read as undefined
ReplaceAt(entries, index, entry) ==
  [k \in 1..(IF index + 1 > Len(entries) THEN index + 1 ELSE Len(entries)) |->
     IF k = index + 1 THEN entry
     ELSE IF k <= Len(entries) THEN entries[k] ELSE Undefined]

\* a nullable number: null is the empty sequence, the number n is <<n>>
Null == <<>>
Some(n) == <<n>>

\* Number(text) of the text of a number input: a sequence of decimal digits
RECURSIVE NumberOf(_)
NumberOf(text) ==
  IF text = <<>> THEN 0
  ELSE 10 * NumberOf(SubSeq(text, 1, Len(text) - 1)) + text[Len(text)]

\* String(n) of a whole number, as a sequence of decimal digits
RECURSIVE StringOf(_)
StringOf(n) == IF n < 10 THEN <<n>> ELSE Append(StringOf(n \div 10), n % 10)

\* useState(entry?.field ?? dflt) of every form: the state a form opens with
InputChannelState(ch) ==
  [name |-> OrElse(ch, "name", ""), type |-> OrElse(ch, "type", "voice"),
   description |-> OrElse(ch, "description", ""),
   tokens |-> OrElse(ch, "estimated_tokens_per_call", 0)]

DynamicContextState(dc) ==
  [name |-> OrElse(dc, "name", ""), source |-> OrElse(dc, "source", ""),
   tokens |-> OrElse(dc, "estimated_tokens_per_call", 0),
   cache |-> OrElse(dc, "cache_hit_pct", 15),
   freq |-> OrElse(dc, "fetch_frequency", "")]

GuardrailState(g) ==
  [description |-> OrElse(g, "description", ""), type |-> OrElse(g, "type", "safety"),
   tokens |-> OrElse(g, "estimated_tokens", 0), cache |-> OrElse(g, "cache_hit_pct", 95)]

ToolState(tool) ==
  [name |-> OrElse(tool, "name", ""), type |-> OrElse(tool, "type", "mcp_server"),
   status |-> OrElse(tool, "status", "new"),
   buildEffort |-> OrElse(tool, "build_effort", ""),
   inputTok |-> OrElse(tool, "input_tokens_per_call", 0),
   outputTok |-> OrElse(tool, "output_tokens_per_call", 0),
   cacheHit |-> OrElse(tool, "output_cache_hit_pct", 0),
   systems |-> OrElse(tool, "connected_systems", <<>>)]

SystemNodeState(sys) ==
  [name |-> OrElse(sys, "name", ""), type |-> OrElse(sys, "type", "system"),
   nodePrefix |-> OrElse(sys, "node_prefix", "S"),
   status |-> OrElse(sys, "status", "existing")]

OutputChannelState(ch) ==
  [name |-> OrElse(ch, "name", ""), type |-> OrElse(ch, "type", "system_write"),
   destination |-> OrElse(ch, "destination", ""), format |-> OrElse(ch, "format", ""),
   tokens |-> OrElse(ch, "estimated_tokens", 0),
   latency |-> IF "latency_requirement_ms" \in DOMAIN ch /\ ch.latency_requirement_ms # Null
               THEN StringOf(ch.latency_requirement_ms[1]) ELSE <<>>]

SystemPromptState(sp) ==
  [description |-> OrElse(sp, "description", ""),
   tokens |-> OrElse(sp, "estimated_tokens", 0), cache |-> OrElse(sp, "cache_hit_pct", 95),
   effort |-> OrElse(sp, "engineering_effort", "")]

FewShotState(fs) ==
  [description |-> OrElse(fs, "description", ""),
   tokens |-> OrElse(fs, "estimated_tokens", 0), cache |-> OrElse(fs, "cache_hit_pct", 90),
   freq |-> OrElse(fs, "update_frequency", "")]

\* the system prompt form and the few-shot form write an object of their fields
SystemPromptFormSave(agentSpec, st) ==
  [prompt_requirements |->
     With(OrElse(agentSpec, "prompt_requirements", [k \in {} |-> TRUE]), "system_prompt",
          WithOrUndefined([description |-> st.description, estimated_tokens |-> st.tokens,
                           cache_hit_pct |-> st.cache],
                          "engineering_effort", st.effort))]

FewShotFormSave(agentSpec, st) ==
  [prompt_requirements |->
     With(OrElse(agentSpec, "prompt_requirements", [k \in {} |-> TRUE]), "few_shot_examples",
          WithOrUndefined([description |-> st.description, estimated_tokens |-> st.tokens,
                           cache_hit_pct |-> st.cache],
                          "update_frequency", st.freq))]

\* handleSave of every form: the patch passed to onSave
InputChannelFormSave(agentSpec, index, st) ==
  LET updated == OrElse(agentSpec, "input_channels", <<>>)
  IN  [input_channels |->
         ReplaceAt(updated, index,
           Merge(Spread(At(updated, index)),
                 [name |-> st.name, type |-> st.type, description |-> st.description,
                  estimated_tokens_per_call |-> st.tokens]))]

DynamicContextFormSave(agentSpec, index, st) ==
  LET pr      == OrElse(agentSpec, "prompt_requirements", [k \in {} |-> TRUE])
      updated == OrElse(pr, "dynamic_context", <<>>)
  IN  [prompt_requirements |->
         With(pr, "dynamic_context",
           ReplaceAt(updated, index,
             WithOrUndefined(
               Merge(Spread(At(updated, index)),
                     [name |-> st.name, source |-> st.source,
                      estimated_tokens_per_call |-> st.tokens,
                      cache_hit_pct |-> st.cache]),
               "fetch_frequency", st.freq)))]

\* the guardrail form writes an object of its four fields
GuardrailFormSave(agentSpec, index, st) ==
  LET pr      == OrElse(agentSpec, "prompt_requirements", [k \in {} |-> TRUE])
      updated == OrElse(pr, "guardrails", <<>>)
  IN  [prompt_requirements |->
         With(pr, "guardrails",
           ReplaceAt(updated, index,
             [description |-> st.description, type |-> st.type,
              estimated_tokens |-> st.tokens, cache_hit_pct |-> st.cache]))]

ToolFormSave(agentSpec, toolIndex, st) ==
  LET updated == OrElse(agentSpec, "tool_stack", <<>>)
  IN  [tool_stack |->
         ReplaceAt(updated, toolIndex,
           WithOrUndefined(
             Merge(Spread(At(updated, toolIndex)),
                   [name |-> st.name, type |-> st.type, status |-> st.status,
                    input_tokens_per_call |-> st.inputTok,
                    output_tokens_per_call |-> st.outputTok,
                    output_cache_hit_pct |-> st.cacheHit,
                    connected_systems |-> st.systems]),
             "build_effort", st.buildEffort))]

SystemNodeFormSave(agentSpec, toolIndex, sysIndex, st) ==
  LET tools   == OrElse(agentSpec, "tool_stack", <<>>)
      tool    == Spread(At(tools, toolIndex))
      sysList == OrElse(tool, "connected_systems", <<>>)
  IN  [tool_stack |->
         ReplaceAt(tools, toolIndex,
           With(tool, "connected_systems",
             ReplaceAt(sysList, sysIndex,
               Merge(Spread(At(sysList, sysIndex)),
                     [name |-> st.name, type |-> st.type,
                      node_prefix |-> st.nodePrefix, status |-> st.status]))))]

OutputChannelFormSave(agentSpec, index, st) ==
  LET updated == OrElse(agentSpec, "output_channels", <<>>)
  IN  [output_channels |->
         ReplaceAt(updated, index,
           WithOrUndefined(WithOrUndefined(
             Merge(Spread(At(updated, index)),
                   [name |-> st.name, type |-> st.type,
                    estimated_tokens |-> st.tokens,
                    latency_requirement_ms |-> IF st.latency # <<>>
                                               THEN Some(NumberOf(st.latency))
                                               ELSE Null]),
             "destination", st.destination), "format", st.format))]

\* NodeForm: the form of a node, by the prefix of the node id
Form(kind, index, sysIndex) == [kind |-> kind, index |-> index, sysIndex |-> sysIndex]

NoForm == Form("none", 0, 0)

\* s.startsWith(prefix)
startsWith(s, prefix) == Len(s) >= Len(prefix) /\ SubSeq(s, 1, Len(prefix)) = prefix

\* s.indexOf(sep) at or after a position counted from 1; 0 when sep does not occur
RECURSIVE indexOf(_, _, _)
indexOf(s, sep, from) ==
  IF from + Len(sep) - 1 > Len(s) THEN 0
  ELSE IF SubSeq(s, from, from + Len(sep) - 1) = sep THEN from
  ELSE indexOf(s, sep, from + 1)

\* s.split(sep)
RECURSIVE split(_, _)
split(s, sep) ==
  IF indexOf(s, sep, 1) = 0 THEN <<s>>
  ELSE <<SubSeq(s, 1, indexOf(s, sep, 1) - 1)>>
         \o split(SubSeq(s, indexOf(s, sep, 1) + Len(sep), Len(s)), sep)

\* parts[k], k counted from 0: "" stands for undefined
Part(parts, k) == IF k + 1 <= Len(parts) THEN parts[k + 1] ELSE ""

\* NaN; it indexes no entry of an array
NaN == 0 - 1

DecimalDigits == <<"0", "1", "2", "3", "4", "5", "6", "7", "8", "9">>

\* the number of leading decimal digits of a text
RECURSIVE LeadingDigits(_, _)
LeadingDigits(text, k) ==
  IF k < Len(text) /\ \E d \in 1..10 : DecimalDigits[d] = SubSeq(text, k + 1, k + 1)
  THEN LeadingDigits(text, k + 1) ELSE k

\* parseInt(text, 10) of a text without sign and leading blanks: the number
\* its leading digits spell, NaN without a leading digit
parseInt(text) ==
  IF LeadingDigits(text, 0) = 0 THEN NaN
  ELSE NumberOf([k \in 1..LeadingDigits(text, 0) |->
                   (CHOOSE d \in 1..10 : DecimalDigits[d] = SubSeq(text, k, k)) - 1])

\* NodeForm(nodeId): the form and the indices the prefix of the id selects;
\* "noFields" is the text shown for an id no branch takes
NodeForm(nodeId) ==
  IF startsWith(nodeId, "agent-") THEN Form("agent", 0, 0)
  ELSE IF startsWith(nodeId, "input-")
  THEN Form("input", parseInt(Part(split(nodeId, "-"), 1)), 0)
  ELSE IF nodeId = "prompt-system" THEN Form("systemPrompt", 0, 0)
  ELSE IF startsWith(nodeId, "prompt-dynamic-")
  THEN Form("dynamic", parseInt(Part(split(nodeId, "prompt-dynamic-"), 1)), 0)
  ELSE IF nodeId = "prompt-fewshot" THEN Form("fewShot", 0, 0)
  ELSE IF startsWith(nodeId, "prompt-guardrail-")
  THEN Form("guardrail", parseInt(Part(split(nodeId, "prompt-guardrail-"), 1)), 0)
  ELSE IF startsWith(nodeId, "tool-") /\ Len(split(nodeId, "-")) = 2
  THEN Form("tool", parseInt(Part(split(nodeId, "-"), 1)), 0)
  ELSE IF startsWith(nodeId, "system-")
  THEN Form("system", parseInt(Part(split(nodeId, "-"), 1)),
            parseInt(Part(split(nodeId, "-"), 2)))
  ELSE IF startsWith(nodeId, "output-")
  THEN Form("output", parseInt(Part(split(nodeId, "-"), 1)), 0)
  ELSE Form("noFields", 0, 0)

\* the entry a form reads its fields from (spec.tool_stack?.[toolIndex], ...)
FormEntry(agentSpec, form) ==
  LET pr == OrElse(agentSpec, "prompt_requirements", [k \in {} |-> TRUE])
  IN  CASE form.kind = "input"     -> At(OrElse(agentSpec, "input_channels", <<>>), form.index)
        [] form.kind = "dynamic"   -> At(OrElse(pr, "dynamic_context", <<>>), form.index)
        [] form.kind = "guardrail" -> At(OrElse(pr, "guardrails", <<>>), form.index)
        [] form.kind = "tool"      -> At(OrElse(agentSpec, "tool_stack", <<>>), form.index)
        [] form.kind = "system"    ->
             At(OrElse(At(OrElse(agentSpec, "tool_stack", <<>>), form.index),
                       "connected_systems", <<>>), form.sysIndex)
        [] form.kind = "output"    -> At(OrElse(agentSpec, "output_channels", <<>>), form.index)
        [] form.kind = "systemPrompt" -> OrElse(pr, "system_prompt", [k \in {} |-> TRUE])
        [] form.kind = "fewShot"   -> OrElse(pr, "few_shot_examples", [k \in {} |-> TRUE])
        [] OTHER                   -> agentSpec

\* the forms of the entries of a collection
IndexedKinds == {"input", "dynamic", "guardrail", "tool", "system", "output"}

\* the form returns NotFound, or the panel shows that the node has no
\* editable fields: nothing with a Save button is rendered
NotFound(agentSpec, form) ==
  \/ form.kind = "noFields"
  \/ /\ form.kind \in IndexedKinds
     /\ FormEntry(agentSpec, form) = Undefined

FormState(agentSpec, form) ==
  CASE form.kind = "input"     -> InputChannelState(FormEntry(agentSpec, form))
    [] form.kind = "dynamic"   -> DynamicContextState(FormEntry(agentSpec, form))
    [] form.kind = "guardrail" -> GuardrailState(FormEntry(agentSpec, form))
    [] form.kind = "tool"      -> ToolState(FormEntry(agentSpec, form))
    [] form.kind = "system"    -> SystemNodeState(FormEntry(agentSpec, form))
    [] form.kind = "systemPrompt" -> SystemPromptState(FormEntry(agentSpec, form))
    [] form.kind = "fewShot"   -> FewShotState(FormEntry(agentSpec, form))
    [] OTHER                   -> OutputChannelState(FormEntry(agentSpec, form))

FormSave(agentSpec, form, st) ==
  CASE form.kind = "input"     -> InputChannelFormSave(agentSpec, form.index, st)
    [] form.kind = "dynamic"   -> DynamicContextFormSave(agentSpec, form.index, st)
    [] form.kind = "guardrail" -> GuardrailFormSave(agentSpec, form.index, st)
    [] form.kind = "tool"      -> ToolFormSave(agentSpec, form.index, st)
    [] form.kind = "system"    ->
         SystemNodeFormSave(agentSpec, form.index, form.sysIndex, st)
    [] form.kind = "systemPrompt" -> SystemPromptFormSave(agentSpec, st)
    [] form.kind = "fewShot"   -> FewShotFormSave(agentSpec, st)
    [] OTHER                   -> OutputChannelFormSave(agentSpec, form.index, st)

\* ---- inputs of the forms ----

MaxSaves == 2

\* an object restricted to some of its fields
Keep(obj, fields) == [k \in DOMAIN obj \cap fields |-> obj[k]]

\* A specification whose entries carry every field the forms edit and one
\* field they do not edit (node_prefix of a tool, source_ref elsewhere); with
\* sparse, the optional fields of every entry are absent.
FormSpecOf(sparse) ==
  LET opt(obj, required) == IF sparse THEN Keep(obj, required) ELSE obj
      sys(si) == opt([name |-> "sys" \o ToString(si), type |-> "database",
                      node_prefix |-> "S" \o ToString(si), status |-> "existing",
                      source_ref |-> "r-sys" \o ToString(si)],
                     {"name", "source_ref"})
      tool(ti) == opt([name |-> "tool" \o ToString(ti), type |-> "mcp_server",
                       status |-> "new", build_effort |-> "2d",
                       input_tokens_per_call |-> 200, output_tokens_per_call |-> 50,
                       output_cache_hit_pct |-> 10, node_prefix |-> "T" \o ToString(ti),
                       connected_systems |-> [si \in 1..(2 - ti) |-> sys(si - 1)]],
                      {"name", "type", "status", "output_tokens_per_call", "node_prefix"})
  IN  [id |-> "s1", name |-> "agent",
       input_channels |->
         [i \in 1..2 |-> opt([name |-> "in" \o ToString(i - 1), type |-> "form",
                              description |-> "intake", estimated_tokens_per_call |-> 30,
                              source_ref |-> "r-in" \o ToString(i - 1)],
                             {"name", "source_ref"})],
       prompt_requirements |->
         [k \in {"system_prompt", "dynamic_context", "guardrails"}
              \ (IF sparse THEN {"system_prompt"} ELSE {}) |->
            [system_prompt |-> [estimated_tokens |-> 800],
          dynamic_context |->
            << opt([name |-> "ctx0", source |-> "crm", estimated_tokens_per_call |-> 120,
                    cache_hit_pct |-> 20, fetch_frequency |-> "daily",
                    source_ref |-> "r-ctx0"],
                   {"name", "source_ref"}) >>,
          guardrails |->
            [i \in 1..2 |-> opt([description |-> "rule" \o ToString(i - 1),
                                 type |-> "scope", estimated_tokens |-> 60,
                                 cache_hit_pct |-> 90,
                                 source_ref |-> "r-g" \o ToString(i - 1)],
                                {"description", "source_ref"})]][k]],
       tool_stack |-> [ti \in 1..2 |-> tool(ti - 1)],
       output_channels |->
         << opt([name |-> "out0", type |-> "system_write", destination |-> "erp",
                 format |-> "json", estimated_tokens |-> 40,
                 latency_requirement_ms |-> Some(250), source_ref |-> "r-out0"],
                {"name", "source_ref"}) >>]

FormSpecs == {FormSpecOf(FALSE), FormSpecOf(TRUE)}

\* panelNodeId: the ids of the nodes a diagram of these specifications shows,
\* and the ids of the nodes of a revision with one more entry, block or
\* system, whose panel is still open when the entry has gone
PanelNodeIds ==
  {"input-0", "input-1", "input-2", "prompt-system", "prompt-dynamic-0",
   "prompt-dynamic-1", "prompt-fewshot", "prompt-guardrail-0", "prompt-guardrail-1",
   "prompt-guardrail-2", "tool-0", "tool-1", "tool-2", "system-0-0", "system-0-1",
   "system-0-2", "system-1-0", "system-1-1", "system-2-0", "output-0", "output-1"}

\* what the user types into a number input
NumberTexts == {<<7, 5>>, <<5, 0>>}

\* one edit of a field of a form: the state variable and its new value.  A
\* number input sets Number(text), a text input the text.
FieldEdits(kind) ==
  LET tokens(field) == {[field |-> field, value |-> NumberOf(t)] : t \in NumberTexts}
  IN  CASE kind = "input"     -> {[field |-> "name", value |-> "renamed"]} \cup tokens("tokens")
        [] kind = "dynamic"   -> {[field |-> "freq", value |-> ""]} \cup tokens("tokens")
        [] kind = "guardrail" -> tokens("tokens")
        [] kind = "tool"      -> {[field |-> "name", value |-> "renamed"]}
                                   \cup tokens("outputTok")
        [] kind = "system"    -> {[field |-> "name", value |-> "renamed"]}
        [] kind = "systemPrompt" -> {[field |-> "description", value |-> "persona"]}
        [] kind = "fewShot"   -> {[field |-> "freq", value |-> "weekly"]}
        [] OTHER              -> {[field |-> "latency", value |-> <<7, 5>>],
                                  [field |-> "destination", value |-> ""]}

\* ------------------------------------------------------------------------
\* The event-stream hook (useAgenticDesignWebSocket, useDiscoveryWebSocket)
\* and the conversation part of its store
\* ------------------------------------------------------------------------

MaxSockets == 3
MaxStreamEvents == 5

\* the useCaseId prop: "" is the falsy id
UseCaseIds == {"", "uc1", "uc2"}

\* the delta strings of text_delta events
Deltas == {"", "a", "b"}

\* the server events handleEvent switches on that touch the conversation
StreamEvents ==
  {[type |-> "text_delta", delta |-> d] : d \in Deltas}
    \cup {[type |-> "message_complete", message_id |-> "m1"],
          [type |-> "error", message |-> "boom"]}

initialState == [chatMessages |-> <<>>, streamingText |-> "", isStreaming |-> FALSE]

appendStreamDelta(st, delta) == [st EXCEPT !.streamingText = @ \o delta]

setIsStreaming(st, v) == [st EXCEPT !.isStreaming = v]

addChatMessage(st, msg) == [st EXCEPT !.chatMessages = Append(@, msg)]

finaliseStreamingMessage(st, messageId) ==
  IF st.streamingText = "" THEN st
  ELSE [chatMessages |-> Append(st.chatMessages,
                                [id |-> messageId, role |-> "assistant",
                                 text |-> st.streamingText, streaming |-> FALSE]),
        streamingText |-> "", isStreaming |-> FALSE]

handleEvent(st, event) ==
  CASE event.type = "text_delta" ->
         setIsStreaming(appendStreamDelta(st, event.delta), TRUE)
    [] event.type = "message_complete" ->
         finaliseStreamingMessage(st, event.message_id)
    [] OTHER ->
         addChatMessage(setIsStreaming(st, FALSE),
                        [id |-> "error", role |-> "assistant",
                         text |-> "Error: " \o event.message])

\* new WebSocket(url): cleaned records that the effect cleanup closed it
NewSocket(id) == [readyState |-> "CONNECTING", useCaseId |-> id, cleaned |-> FALSE]

\* connect() of the closure made for a useCaseId: the sockets and wsRef.current after it
connect(mref, id, socks, ref) ==
  IF ~mref \/ id = "" \/ (ref # 0 /\ socks[ref].readyState = "OPEN")
  THEN [sockets |-> socks, wsRef |-> ref]
  ELSE [sockets |-> Append(socks, NewSocket(id)), wsRef |-> Len(socks) + 1]

\* wsRef.current?.close() of the cleanup: a socket that is connecting or open
\* starts closing, its close event comes later
close(socks, ref) ==
  IF ref # 0 /\ socks[ref].readyState \in {"CONNECTING", "OPEN"}
  THEN [socks EXCEPT ![ref].readyState = "CLOSING", ![ref].cleaned = TRUE]
  ELSE socks

\* if (reconnectTimeoutRef.current) clearTimeout(reconnectTimeoutRef.current)
clearReconnect(timers, handle) == {t \in timers : t.id # handle}

\* the deltas handled since the streaming text was last empty
NoRun == [deltas |-> <<>>, pure |-> TRUE]

\* no handler of a socket has run yet
NoHandler == [n |-> 0, socket |-> 0, kind |-> "none", type |-> "none",
              acted |-> FALSE, cleaned |-> FALSE]

\* no hook is mounted
HookIdle ==
  /\ hookMounted = FALSE
  /\ useCaseId = ""
  /\ mountedRef = FALSE
  /\ sockets = <<>>
  /\ wsRef = 0
  /\ reconnectTimeoutRef = 0
  /\ wsTimers = {}
  /\ store = initialState
  /\ stRun = NoRun
  /\ wsLast = NoHandler

\* no form is open and nothing has been saved
FormIdle ==
  /\ fNode = ""
  /\ fSpec = [id |-> "s1", name |-> "agent"]
  /\ fForm = NoForm
  /\ fState = [k \in {} |-> TRUE]
  /\ fTyped = [k \in {} |-> TRUE]
  /\ fPatch = [k \in {} |-> TRUE]
  /\ fEdits = <<>>

SnapIdle ==
  /\ sAll = <<>>
  /\ sDragging = <<>>
  /\ sResult = NoSnap
  /\ sCall = "none"

LayoutIdle ==
  /\ lSpec = MkSpec(0, FALSE, 0, FALSE, 0, <<>>, 0, TRUE)
  /\ lMode = "architecture"
  /\ lSaved = NoPositions
  /\ lResult = [nodes |-> <<>>, edges |-> <<>>]
  /\ lCall = "none"

\* no drag-stop yet
NoBurst == [n |-> 0, moved |-> NoPositions, before |-> NoPositions]

\* the diagram controller before any diagram is mounted
NoEvent == [op |-> "none", arg |-> "none", invoked |-> FALSE]

CtlIdle ==
  /\ mounted = FALSE
  /\ spec = MkSpec(0, FALSE, 0, FALSE, 0, <<>>, 0, TRUE)
  /\ serverSpec = spec
  /\ viewMode = "architecture"
  /\ nodes = <<>>
  /\ edges = <<>>
  /\ positionsRef = NoPositions
  /\ positionsAliased = FALSE
  /\ positionSaveTimer = FALSE
  /\ liveTimers = 0
  /\ burst = NoBurst
  /\ requests = <<>>
  /\ isSaving = FALSE
  /\ selectionCount = 0
  /\ snapLines = <<>>
  /\ dragItems = NoPositions
  /\ lastEvent = NoEvent
  /\ nEvents = 0

SnapInit ==
  /\ sAll \in SnapCanvases
  /\ sDragging = <<>>
  /\ sResult = NoSnap
  /\ sCall = "none"
  /\ LayoutIdle
  /\ CtlIdle
  /\ FormIdle
  /\ HookIdle

\* one drag frame: one or two nodes of the canvas are dragged together by an
\* offset and computeSnapGuides is called with their proposed positions
SnapFrame ==
  /\ sCall = "none"
  /\ \E ids \in SUBSET NodeIds(sAll), dx \in SnapOffsetXs, dy \in SnapOffsetYs :
       /\ Cardinality(ids) \in {1, 2}
       /\ sDragging' =
            LET moving == SelectSeq(sAll, LAMBDA n : n.id \in ids)
            IN  [i \in 1..Len(moving) |->
                   With(moving[i], "position",
                        Pos(RAdd(moving[i].position.x, dx),
                            RAdd(moving[i].position.y, dy)))]
  /\ sResult' = computeSnapGuides(sDragging', sAll, Rat(SNAP_THRESHOLD))
  /\ sCall' = "snap"
  /\ UNCHANGED <<sAll, layoutVars, ctlVars, formVars, hookVars>>

SnapNext == SnapFrame

SpecSnap == SnapInit /\ [][SnapNext]_vars

\* ------------------------------------------------------------------------
\* AgentArchitectureDiagram: alignment and distribution
\* ------------------------------------------------------------------------

\* measured or declared width / height of a node
nw(n) == IF "measured" \in DOMAIN n THEN n.measured.width ELSE OrElse(n, "width", 0)
nh(n) == IF "measured" \in DOMAIN n THEN n.measured.height ELSE OrElse(n, "height", 0)

\* n.selected is truthy
IsSelected(n) == "selected" \in DOMAIN n /\ n.selected

Selected(ns) == SelectSeq(ns, IsSelected)

AlignDirs      == {"left", "centerX", "right", "top", "centerY", "bottom"}
DistributeDirs == {"h", "v"}

\* mutant: the align buttons act for any selection count
canAlignAlways(count) == TRUE

\* toolbar: which groups of buttons act on a click
canAlign(count) == count >= 2

canDistribute(count) == count >= 3

\* mutant: align right puts the left edge, not the right edge, on maxRight;
\* align bottom likewise
alignedPosLeftEdge(n, dir, selected) ==
  LET maxRight  == RMaxOf({RAdd(m.position.x, Rat(nw(m))) : m \in SeqRange(selected)})
      maxBottom == RMaxOf({RAdd(m.position.y, Rat(nh(m))) : m \in SeqRange(selected)})
      minLeft   == RMinOf({m.position.x : m \in SeqRange(selected)})
      minTop    == RMinOf({m.position.y : m \in SeqRange(selected)})
  IN  Pos(IF dir \in {"right", "centerX"} THEN maxRight
          ELSE IF dir = "left" THEN minLeft ELSE n.position.x,
          IF dir \in {"bottom", "centerY"} THEN maxBottom
          ELSE IF dir = "top" THEN minTop ELSE n.position.y)

\* the new position handleAlign gives the selected node n
alignedPos(n, dir, selected) ==
  LET minLeft     == RMinOf({m.position.x : m \in SeqRange(selected)})
      maxRight    == RMaxOf({RAdd(m.position.x, Rat(nw(m))) : m \in SeqRange(selected)})
      minTop      == RMinOf({m.position.y : m \in SeqRange(selected)})
      maxBottom   == RMaxOf({RAdd(m.position.y, Rat(nh(m))) : m \in SeqRange(selected)})
      bboxCenterX == RDivI(RAdd(minLeft, maxRight), 2)
      bboxCenterY == RDivI(RAdd(minTop, maxBottom), 2)
      newX == CASE dir = "left"    -> minLeft
                [] dir = "centerX" -> RSub(bboxCenterX, RDivI(Rat(nw(n)), 2))
                [] dir = "right"   -> RSub(maxRight, Rat(nw(n)))
                [] OTHER           -> n.position.x
      newY == CASE dir = "top"     -> minTop
                [] dir = "centerY" -> RSub(bboxCenterY, RDivI(Rat(nh(n)), 2))
                [] dir = "bottom"  -> RSub(maxBottom, Rat(nh(n)))
                [] OTHER           -> n.position.y
  IN  Pos(newX, newY)

\* position and size of a node along the axis of a distribution
AxisPos(n, dir)  == IF dir = "h" THEN n.position.x ELSE n.position.y
AxisSize(n, dir) == IF dir = "h" THEN nw(n) ELSE nh(n)

\* [...selected].sort((a, b) => a.position - b.position): a stable sort
RECURSIVE InsertSorted(_, _, _)
InsertSorted(sorted, n, dir) ==
  IF sorted = <<>> THEN <<n>>
  ELSE IF RLt(AxisPos(n, dir), AxisPos(sorted[Len(sorted)], dir))
       THEN Append(InsertSorted(SubSeq(sorted, 1, Len(sorted) - 1), n, dir),
                   sorted[Len(sorted)])
       ELSE Append(sorted, n)

RECURSIVE SortByAxis(_, _)
SortByAxis(ns, dir) ==
  IF ns = <<>> THEN <<>>
  ELSE InsertSorted(SortByAxis(SubSeq(ns, 1, Len(ns) - 1), dir), ns[Len(ns)], dir)

RECURSIVE SumSizes(_, _)
SumSizes(ns, dir) ==
  IF ns = <<>> THEN 0 ELSE AxisSize(Head(ns), dir) + SumSizes(Tail(ns), dir)

\* mutant: the free space is divided by the number of nodes
distributeGapByCount(span, total, count) == RDivI(RSub(span, Rat(total)), count)

\* gap = (span - total) / (sorted.length - 1)
distributeGap(span, total, count) == RDivI(RSub(span, Rat(total)), count - 1)

\* xMap / yMap: the coordinate of each selected node id after the loop
\*   for (const n of sorted) { map[n.id] = x; x += size(n) + gap; }
distributeMap(selected, dir) ==
  LET sorted == SortByAxis(selected, dir)
      last   == sorted[Len(sorted)]
      total  == SumSizes(sorted, dir)
      span   == RSub(RAdd(AxisPos(last, dir), Rat(AxisSize(last, dir))),
                     AxisPos(sorted[1], dir))
      gap    == distributeGap(span, total, Len(sorted))
      at[k \in 1..Len(sorted)] ==
        IF k = 1 THEN AxisPos(sorted[1], dir)
        ELSE RAdd(RAdd(at[k - 1], Rat(AxisSize(sorted[k - 1], dir))), gap)
  IN  [id \in NodeIds(sorted) |->
         at[CHOOSE k \in 1..Len(sorted) :
              /\ sorted[k].id = id
              /\ \A j \in 1..Len(sorted) : sorted[j].id = id => j <= k]]

\* the new position handleDistribute gives the selected node n
distributedPos(n, dir, selected) ==
  LET map == distributeMap(selected, dir)
      c   == IF n.id \in DOMAIN map THEN map[n.id] ELSE AxisPos(n, dir)
  IN  IF dir = "h" THEN Pos(c, n.position.y) ELSE Pos(n.position.x, c)

\* newNodes = nodesRef.current.map(n => n.selected ? {...n, position} : n)
\* (newPos: the position computed for each selected node)
moveSelected(ns, newPos) ==
  [i \in 1..Len(ns) |->
     IF IsSelected(ns[i]) THEN With(ns[i], "position", newPos[ns[i]]) ELSE ns[i]]

\* mutant: the map callback writes the position-map entry of every node
recordMovedAll(positions, before, after) ==
  [id \in DOMAIN positions \cup NodeIds(after) |->
     IF \E i \in 1..Len(after) : after[i].id = id
     THEN LET i == CHOOSE i \in 1..Len(after) : after[i].id = id
          IN  Pos(after[i].position.x, after[i].position.y)
     ELSE positions[id]]

\* positionsRef.current[n.id] = { x: newX, y: newY } for every selected node
recordMoved(positions, before, after) ==
  LET moved == {i \in 1..Len(before) : IsSelected(before[i])}
  IN  [id \in DOMAIN positions \cup {after[i].id : i \in moved} |->
         IF \E i \in moved : after[i].id = id
         THEN LET i == CHOOSE i \in moved :
                         /\ after[i].id = id
                         /\ \A j \in moved : after[j].id = id => j <= i
              IN  Pos(after[i].position.x, after[i].position.y)
         ELSE positions[id]]

\* ------------------------------------------------------------------------
\* AgentArchitectureDiagram: state, handlers and the service
\* ------------------------------------------------------------------------

MaxEvents == 2

\* mutant: the layout with the node_positions of the specification passed
buildLayoutFromSpec(currentSpec, currentViewMode, positions) ==
  buildDiagramLayout(currentSpec, currentViewMode,
                     OrElse(currentSpec, "node_positions", NoPositions))

\* buildLayout(currentSpec, currentViewMode): the layout with positionsRef.current
buildLayout(currentSpec, currentViewMode, positions) ==
  buildDiagramLayout(currentSpec, currentViewMode, positions)

\* useNodesState: one change applied to the node it names
applyChange(n, c) ==
  CASE c.type = "select"     -> With(n, "selected", c.selected)
    [] c.type = "dimensions" -> With(n, "measured", c.dimensions)
    [] c.type = "position"   ->
         With(IF "position" \in DOMAIN c THEN With(n, "position", c.position) ELSE n,
              "dragging", c.dragging)
    [] OTHER                 -> n

RECURSIVE applyChangesTo(_, _, _)
applyChangesTo(n, changes, k) ==
  IF k > Len(changes) THEN n
  ELSE applyChangesTo(IF changes[k].id = n.id THEN applyChange(n, changes[k]) ELSE n,
                      changes, k + 1)

\* onNodesChangeInternal(changes)
applyNodeChanges(changes, ns) ==
  [i \in 1..Len(ns) |-> applyChangesTo(ns[i], changes, 1)]

isActiveDrag(c) ==
  /\ c.type = "position"
  /\ c.dragging = TRUE
  /\ "position" \in DOMAIN c

\* the dragging nodes with their proposed positions
proposedNodes(dragChanges, ns) ==
  [k \in 1..Len(dragChanges) |->
     With(CHOOSE n \in SeqRange(ns) : n.id = dragChanges[k].id,
          "position", dragChanges[k].position)]

\* the changes with the snap delta added to every active drag change
snappedChanges(changes, guides) ==
  [k \in 1..Len(changes) |->
     IF ~isActiveDrag(changes[k]) THEN changes[k]
     ELSE With(changes[k], "position",
               Pos(RAdd(changes[k].position.x, guides.snapDx),
                   RAdd(changes[k].position.y, guides.snapDy)))]

\* the branch of handleNodesChange taken when some change is an active drag
dragFrame(changes, ns, guides) ==
  [snapLines |-> guides.lines,
   nodes |-> applyNodeChanges(IF guides.snapDx # Rat(0) \/ guides.snapDy # Rat(0)
                              THEN snappedChanges(changes, guides) ELSE changes, ns)]

\* handleNodesChange(changes): the node list and the snap lines afterwards
handleNodesChange(changes, ns, lines) ==
  IF \E k \in 1..Len(changes) : isActiveDrag(changes[k])
  THEN dragFrame(changes, ns,
         computeSnapGuides(
           proposedNodes(SelectSeq(changes,
                           LAMBDA c : isActiveDrag(c) /\ c.id \in NodeIds(ns)), ns),
           ns, Rat(SNAP_THRESHOLD)))
  ELSE [snapLines |-> IF \E k \in 1..Len(changes) :
                           /\ changes[k].type = "position"
                           /\ changes[k].dragging = FALSE
                      THEN <<>> ELSE lines,
        nodes |-> applyNodeChanges(changes, ns)]

\* the service: PATCH of a specification, answered with the stored document
updateSpec(stored, body) ==
  With([k \in DOMAIN stored \cup DOMAIN body |->
          IF k \in DOMAIN body THEN body[k] ELSE stored[k]],
       "updated_at", stored.updated_at + 1)

RemoveAt(q, i) == SubSeq(q, 1, i - 1) \o SubSeq(q, i + 1, Len(q))

\* the specification shown by the mounted diagram: one input channel, one tool,
\* one output channel
MountBase == With(MkSpec(1, FALSE, 0, FALSE, 0, <<0>>, 1, FALSE), "updated_at", 1)

\* node_positions the mounted specification may carry: an entry for some of
\* the nodes only, one of them at a fractional position
MountPositions ==
  { [id \in {"agent-s1", "tool-0", "output-0"} |->
       CASE id = "agent-s1" -> Pos(Rat(400), Rat(100))
         [] id = "tool-0"   -> Pos(Norm(807, 2), Rat(350))
         [] OTHER           -> Pos(Rat(90), Rat(500))] }

MountSpecs == {MountBase} \cup {With(MountBase, "node_positions", m) : m \in MountPositions}

\* selections the user makes on the canvas: none, a pair, a triple
SelectionChoices(ns) ==
  { {}, {ns[i].id : i \in 2..3} \cap NodeIds(ns), {ns[i].id : i \in 2..Len(ns)} }

\* the nodes the user grabs to drag
DragHandles(ns) == {ns[i].id : i \in {1, Len(ns)}}

\* mouse offsets of a drag
DragOffsets == {Pos(Rat(40), Rat(5))}

\* what React Flow reports for a dragged node when the drag ends: the position
\* it proposed, or the position held in the rendered state
DragStopReports == {"proposed", "rendered"}

\* what the DOM measures for a rendered node: tools render taller than declared
Measured(n) ==
  [width |-> OrElse(n, "width", 0),
   height |-> OrElse(n, "height", 0) + (IF n.type = "toolNode" THEN 12 ELSE 0)]

Event(op, arg, invoked) == [op |-> op, arg |-> arg, invoked |-> invoked]

\* a click on a toolbar button: a disabled button passes no direction on
Clicked(op, dir, enabled) == Event(op, IF enabled THEN dir ELSE "none", enabled)

\* useNodesState(initialNodes), useEdgesState(initialEdges)
Mounted(laid) ==
  /\ nodes = laid.nodes
  /\ edges = laid.edges

\* setNodes(fresh); setEdges(freshEdges)
Render(laid) ==
  /\ nodes' = laid.nodes
  /\ edges' = laid.edges

\* setSnapLines and onNodesChangeInternal of handleNodesChange
Changed(after) ==
  /\ nodes' = after.nodes
  /\ snapLines' = after.snapLines

\* the component mounts on a specification
Init ==
  /\ mounted = TRUE
  /\ spec \in MountSpecs
  /\ serverSpec = spec
  /\ viewMode = "architecture"
  /\ positionsRef = OrElse(spec, "node_positions", NoPositions)
  /\ positionsAliased = ("node_positions" \in DOMAIN spec)
  /\ Mounted(buildLayout(spec, viewMode, positionsRef))
  /\ positionSaveTimer = FALSE
  /\ liveTimers = 0
  /\ burst = NoBurst
  /\ requests = <<>>
  /\ isSaving = FALSE
  /\ selectionCount = 0
  /\ snapLines = <<>>
  /\ dragItems = NoPositions
  /\ lastEvent = Event("mount", "none", FALSE)
  /\ nEvents = 0
  /\ LayoutIdle
  /\ SnapIdle
  /\ FormIdle
  /\ HookIdle

\* a write into positionsRef.current is a write into spec.node_positions
\* while the two are one object
specAfterWrite(positions) ==
  IF positionsAliased THEN With(spec, "node_positions", positions) ELSE spec

\* the position map before the changes that a position request persists:
\* those of the pending burst of drags, and the change of the handler that
\* sends the request
Before == IF positionSaveTimer THEN burst.before ELSE positionsRef

\* clearTimeout(handle): one callback fewer is scheduled when the handle is live
clearTimeoutNoop(live, handleLive) == live

clearTimeout(live, handleLive) == IF handleLive THEN live - 1 ELSE live

\* positionsRef.current = fresh object: the specifications captured by pending
\* field edits keep the old object as their node_positions, as it is now
Unaliased(reqs) ==
  [k \in 1..Len(reqs) |->
     IF reqs[k].kind = "edit" /\ reqs[k].aliased
     THEN [reqs[k] EXCEPT !.aliased = FALSE,
                          !.current = With(reqs[k].current, "node_positions", positionsRef)]
     ELSE reqs[k]]

\* mutant: a failed field edit leaves the optimistic specification in place
editRollbackNone(req) == spec

\* catch of handleNodeEdit: current, the object captured before the edit; its
\* node_positions is positionsRef.current while the two are one object
editRollback(req) ==
  IF req.aliased THEN With(req.current, "node_positions", positionsRef) ELSE req.current

\* savePositions(positions) up to its await
savePositions(positions) ==
  /\ isSaving' = TRUE
  /\ requests' = Append(requests, [kind |-> "positions",
                                   body |-> [node_positions |-> positions],
                                   before |-> Before])

\* the select changes React Flow emits when the selection becomes ids
selectChanges(ns, ids) ==
  LET changed == SelectSeq(ns, LAMBDA n : IsSelected(n) # (n.id \in ids))
  IN  [k \in 1..Len(changed) |->
         [type |-> "select", id |-> changed[k].id, selected |-> changed[k].id \in ids]]

\* the dimensions changes React Flow emits for the nodes it has not measured
dimensionChanges(ns) ==
  LET fresh == SelectSeq(ns, LAMBDA n : "measured" \notin DOMAIN n)
  IN  [k \in 1..Len(fresh) |->
         [type |-> "dimensions", id |-> fresh[k].id, dimensions |-> Measured(fresh[k])]]

\* the nodes that move with the grabbed node: the whole selection when the
\* grabbed node is selected
dragGroup(ns, grabbed) ==
  IF \E n \in SeqRange(ns) : n.id = grabbed /\ IsSelected(n)
  THEN Selected(ns)
  ELSE SelectSeq(ns, LAMBDA n : n.id = grabbed)

\* React Flow's proposal: start position + mouse offset
proposedPositions(group, off) ==
  [id \in NodeIds(group) |->
     LET n == CHOOSE n \in SeqRange(group) : n.id = id
     IN  Pos(RAdd(n.position.x, off.x), RAdd(n.position.y, off.y))]

\* the position changes React Flow emits for the dragged nodes
positionChanges(ns, positions, dragging) ==
  LET dragged == SelectSeq(ns, LAMBDA n : n.id \in DOMAIN positions)
  IN  [k \in 1..Len(dragged) |->
         [type |-> "position", id |-> dragged[k].id,
          position |-> positions[dragged[k].id], dragging |-> dragging]]

\* the positions of the draggingNodes handed to onNodeDragStop
reportedPositions(ns, proposed, report) ==
  [id \in DOMAIN proposed \cap NodeIds(ns) |->
     IF report = "proposed" THEN proposed[id]
     ELSE (CHOOSE n \in SeqRange(ns) : n.id = id).position]

\* for (const n of draggingNodes) positionsRef.current[n.id] = { x, y }
recordDragged(positions, reported) ==
  [id \in DOMAIN positions \cup DOMAIN reported |->
     IF id \in DOMAIN reported THEN Pos(reported[id].x, reported[id].y)
     ELSE positions[id]]

\* the positions just recorded for the dragged nodes
lastReported(positions, proposed) ==
  [id \in DOMAIN proposed \cap DOMAIN positions |-> positions[id]]

\* The user acts on a canvas whose nodes React Flow has measured, and, while a
\* drag is in flight, holds the pointer down on the canvas: no other pointer
\* event (selection, toolbar, view toggle) occurs then.
PointerFree ==
  /\ mounted
  /\ dragItems = NoPositions
  /\ \A n \in SeqRange(nodes) : "measured" \in DOMAIN n

\* MaxEvents bounds the user's session: after that many drags and clicks that
\* change the diagram, only clicks without effect, the timer and the responses
\* of the service remain.
UserIdle ==
  /\ PointerFree
  /\ nEvents < MaxEvents

\* the user changes the selection: select changes through onNodesChange, and
\* onSelectionChange with the selected nodes
SelectNodes ==
  /\ UserIdle
  /\ \E ids \in SelectionChoices(nodes) :
       /\ \E n \in SeqRange(nodes) : IsSelected(n) # (n.id \in ids)
       /\ Changed(handleNodesChange(selectChanges(nodes, ids), nodes, snapLines))
  /\ selectionCount' = Len(Selected(nodes'))
  /\ UNCHANGED <<mounted, spec, serverSpec, viewMode, edges, positionsRef, positionsAliased,
                 positionSaveTimer, liveTimers, burst, requests, isSaving,
                 dragItems, lastEvent, nEvents, layoutVars, snapVars, formVars, hookVars>>

\* onSelectionChange={({ nodes: sel }) => setSelectionCount(sel.length)}, fired
\* by React Flow after a re-layout replaced the selected nodes
OnSelectionChange ==
  /\ mounted
  /\ selectionCount # Len(Selected(nodes))
  /\ selectionCount' = Len(Selected(nodes))
  /\ UNCHANGED <<mounted, spec, serverSpec, viewMode, nodes, edges, positionsRef, positionsAliased,
                 positionSaveTimer, liveTimers, burst, requests, isSaving, snapLines,
                 dragItems, lastEvent, nEvents, layoutVars, snapVars, formVars, hookVars>>

\* React Flow measures the rendered nodes: dimensions changes through onNodesChange
MeasureNodes ==
  /\ mounted
  /\ \E n \in SeqRange(nodes) : "measured" \notin DOMAIN n
  /\ Changed(handleNodesChange(dimensionChanges(nodes), nodes, snapLines))
  /\ UNCHANGED <<mounted, spec, serverSpec, viewMode, edges, positionsRef, positionsAliased,
                 positionSaveTimer, liveTimers, burst, requests, isSaving, selectionCount,
                 dragItems, lastEvent, nEvents, layoutVars, snapVars, formVars, hookVars>>

\* handleAlign(dir)
handleAlign(dir) ==
  LET selected == Selected(nodes)
  IN  IF Len(selected) < 2
      THEN UNCHANGED <<spec, nodes, positionsRef, positionSaveTimer, liveTimers, burst, requests, isSaving>>
      ELSE LET newNodes == moveSelected(nodes, [n \in SeqRange(selected) |-> alignedPos(n, dir, selected)])
           IN  /\ positionsRef' = recordMoved(positionsRef, nodes, newNodes)
               /\ spec' = specAfterWrite(positionsRef')
               /\ nodes' = newNodes
               /\ positionSaveTimer' = FALSE
               /\ liveTimers' = clearTimeout(liveTimers, positionSaveTimer)
               /\ burst' = burst
               /\ savePositions(positionsRef')

\* handleDistribute(dir)
handleDistribute(dir) ==
  LET selected == Selected(nodes)
  IN  IF Len(selected) < 3
      THEN UNCHANGED <<spec, nodes, positionsRef, positionSaveTimer, liveTimers, burst, requests, isSaving>>
      ELSE LET newNodes == moveSelected(nodes, [n \in SeqRange(selected) |-> distributedPos(n, dir, selected)])
           IN  /\ positionsRef' = recordMoved(positionsRef, nodes, newNodes)
               /\ spec' = specAfterWrite(positionsRef')
               /\ nodes' = newNodes
               /\ positionSaveTimer' = FALSE
               /\ liveTimers' = clearTimeout(liveTimers, positionSaveTimer)
               /\ burst' = burst
               /\ savePositions(positionsRef')

\* a click on an align button of the toolbar: enabled && onClick().  A click
\* that changes nothing does not count as an event of the session.
ToolbarAlign ==
  /\ PointerFree
  /\ \E dir \in AlignDirs :
       /\ IF canAlign(selectionCount)
          THEN handleAlign(dir)
          ELSE UNCHANGED <<spec, nodes, positionsRef, positionSaveTimer, liveTimers, burst, requests, isSaving>>
       /\ lastEvent' = Clicked("align", dir, canAlign(selectionCount))
  /\ nEvents' = IF requests' # requests THEN nEvents + 1 ELSE nEvents
  /\ nEvents' <= MaxEvents
  /\ UNCHANGED <<mounted, serverSpec, viewMode, edges, positionsAliased, selectionCount,
                 snapLines, dragItems, layoutVars, snapVars, formVars, hookVars>>

\* a click on a distribute button of the toolbar
ToolbarDistribute ==
  /\ PointerFree
  /\ \E dir \in DistributeDirs :
       /\ IF canDistribute(selectionCount)
          THEN handleDistribute(dir)
          ELSE UNCHANGED <<spec, nodes, positionsRef, positionSaveTimer, liveTimers, burst, requests, isSaving>>
       /\ lastEvent' = Clicked("distribute", dir, canDistribute(selectionCount))
  /\ nEvents' = IF requests' # requests THEN nEvents + 1 ELSE nEvents
  /\ nEvents' <= MaxEvents
  /\ UNCHANGED <<mounted, serverSpec, viewMode, edges, positionsAliased, selectionCount,
                 snapLines, dragItems, layoutVars, snapVars, formVars, hookVars>>

\* one frame of a drag: React Flow proposes start position + mouse offset for
\* the grabbed node, or for the whole selection when the grabbed node is in it
DragFrame ==
  /\ UserIdle
  /\ \E grabbed \in DragHandles(nodes), off \in DragOffsets :
       dragItems' = proposedPositions(dragGroup(nodes, grabbed), off)
  /\ Changed(handleNodesChange(positionChanges(nodes, dragItems', TRUE), nodes, snapLines))
  /\ UNCHANGED <<mounted, spec, serverSpec, viewMode, edges, positionsRef, positionsAliased,
                 positionSaveTimer, liveTimers, burst, requests, isSaving, selectionCount,
                 lastEvent, nEvents, layoutVars, snapVars, formVars, hookVars>>

\* the drag ends: the last position change, then handleNodeDragStop
DragStop ==
  /\ dragItems # NoPositions
  /\ nEvents < MaxEvents
  /\ \E report \in DragStopReports :
       /\ positionsRef' = recordDragged(positionsRef, reportedPositions(nodes, dragItems, report))
       /\ lastEvent' = Event("dragStop", report, TRUE)
  /\ nodes' = handleNodesChange(positionChanges(nodes, lastReported(positionsRef', dragItems),
                                                FALSE), nodes, snapLines).nodes
  /\ spec' = specAfterWrite(positionsRef')
  /\ snapLines' = <<>>
  /\ positionSaveTimer' = TRUE
  /\ liveTimers' = clearTimeout(liveTimers, positionSaveTimer) + 1
  /\ burst' = [n |-> IF positionSaveTimer THEN burst.n + 1 ELSE 1,
               moved |-> recordDragged(IF positionSaveTimer THEN burst.moved ELSE NoPositions,
                                        lastReported(positionsRef', dragItems)),
               before |-> Before]
  /\ dragItems' = NoPositions
  /\ nEvents' = nEvents + 1
  /\ UNCHANGED <<mounted, serverSpec, viewMode, edges, positionsAliased, requests, isSaving,
                 selectionCount, layoutVars, snapVars, formVars, hookVars>>

\* the debounce timer fires: savePositions({ ...positionsRef.current })
TimerFire ==
  /\ positionSaveTimer
  /\ positionSaveTimer' = FALSE
  /\ liveTimers' = liveTimers - 1
  /\ burst' = burst
  /\ savePositions(positionsRef)
  /\ UNCHANGED <<mounted, spec, serverSpec, viewMode, nodes, edges, positionsRef, positionsAliased,
                 selectionCount, snapLines, dragItems, lastEvent, nEvents,
                 layoutVars, snapVars, formVars, hookVars>>

\* a request succeeds: onSpecUpdated(saved), then the re-layout effect that
\* the new updated_at triggers
SaveResolve ==
  \E i \in 1..Len(requests) :
    /\ serverSpec' = updateSpec(serverSpec, requests[i].body)
    /\ spec' = serverSpec'
    /\ positionsAliased' = FALSE
    /\ requests' = RemoveAt(requests, i)
    /\ isSaving' = FALSE
    /\ IF spec'.updated_at = spec.updated_at THEN UNCHANGED <<nodes, edges>>
       ELSE Render(buildLayout(spec', viewMode, positionsRef))
    /\ UNCHANGED <<mounted, viewMode, positionsRef, positionSaveTimer, liveTimers, burst, selectionCount, snapLines,
                   dragItems, lastEvent, nEvents, layoutVars, snapVars, formVars, hookVars>>

\* a request fails: the error is logged; a failed field edit calls
\* onSpecUpdated(current), and the re-layout effect runs when updated_at differs
SaveReject ==
  \E i \in 1..Len(requests) :
    /\ requests' = RemoveAt(requests, i)
    /\ isSaving' = FALSE
    /\ IF requests[i].kind = "edit"
       THEN /\ spec' = editRollback(requests[i])
            /\ positionsAliased' = requests[i].aliased
            /\ IF spec'.updated_at = spec.updated_at THEN UNCHANGED <<nodes, edges>>
               ELSE Render(buildLayout(spec', viewMode, positionsRef))
       ELSE UNCHANGED <<spec, positionsAliased, nodes, edges>>
    /\ UNCHANGED <<mounted, serverSpec, viewMode, positionsRef, positionSaveTimer, liveTimers, burst,
                   selectionCount, snapLines, dragItems, lastEvent, nEvents,
                   layoutVars, snapVars, formVars, hookVars>>

\* handleAutoLayout up to its await; the button is disabled while saving
AutoLayout ==
  /\ UserIdle
  /\ ~isSaving
  /\ positionSaveTimer' = FALSE
  /\ liveTimers' = clearTimeout(liveTimers, positionSaveTimer)
  /\ burst' = burst
  /\ positionsRef' = computeAutoLayout(spec)
  /\ positionsAliased' = FALSE
  /\ Render(buildDiagramLayout(spec, viewMode, positionsRef'))
  /\ isSaving' = TRUE
  /\ requests' = Append(Unaliased(requests),
                        [kind |-> "autoLayout", body |-> [node_positions |-> positionsRef'],
                         before |-> Before])
  /\ lastEvent' = Event("autoLayout", "none", TRUE)
  /\ nEvents' = nEvents + 1
  /\ UNCHANGED <<mounted, spec, serverSpec, viewMode, selectionCount, snapLines, dragItems,
                 layoutVars, snapVars, formVars, hookVars>>

\* the view-mode toggle, then the rebuild effect
SetViewMode ==
  \E mode \in ViewModes :
    /\ UserIdle
    /\ mode # viewMode
    /\ viewMode' = mode
    /\ Render(buildLayout(spec, mode, positionsRef))
    /\ lastEvent' = Event("viewMode", mode, TRUE)
    /\ nEvents' = nEvents + 1
    /\ UNCHANGED <<mounted, spec, serverSpec, positionsRef, positionsAliased, positionSaveTimer, liveTimers, burst,
                   requests, isSaving, selectionCount, snapLines, dragItems,
                   layoutVars, snapVars, formVars, hookVars>>

\* what the panel passes to onSave: the input channel form saved with a new
\* name, the tool form saved with a new output token count
EditPatches(agentSpec) ==
  { InputChannelFormSave(agentSpec, 0,
      With(InputChannelState(agentSpec.input_channels[1]), "name", "renamed")),
    ToolFormSave(agentSpec, 0,
      With(ToolState(agentSpec.tool_stack[1]), "outputTok", NumberOf(<<7, 5>>))) }

\* handleNodeEdit(patch) up to its await; the Save button of the panel is
\* disabled while saving.  The optimistic specification has the updated_at of
\* the current one, so the re-layout effect does not run.
NodeEdit ==
  /\ UserIdle
  /\ ~isSaving
  /\ \E patch \in EditPatches(spec) :
       /\ spec' = Merge(spec, patch)
       /\ requests' = Append(requests, [kind |-> "edit", body |-> patch,
                                        current |-> spec, aliased |-> positionsAliased])
  /\ isSaving' = TRUE
  /\ lastEvent' = Event("edit", "none", TRUE)
  /\ nEvents' = nEvents + 1
  /\ UNCHANGED <<mounted, serverSpec, viewMode, nodes, edges, positionsRef, positionsAliased,
                 positionSaveTimer, liveTimers, burst, selectionCount, snapLines,
                 dragItems, layoutVars, snapVars, formVars, hookVars>>

Next ==
  \/ SelectNodes
  \/ OnSelectionChange
  \/ MeasureNodes
  \/ ToolbarAlign
  \/ ToolbarDistribute
  \/ DragFrame
  \/ DragStop
  \/ TimerFire
  \/ SaveResolve
  \/ SaveReject
  \/ AutoLayout
  \/ SetViewMode

Spec == Init /\ [][Next]_vars

\* the component unmounts: the cleanups of its effects run
Unmount ==
  /\ PointerFree
  /\ mounted' = FALSE
  /\ UNCHANGED <<spec, serverSpec, viewMode, nodes, edges, positionsRef, positionsAliased,
                 positionSaveTimer, liveTimers, burst, requests, isSaving, selectionCount,
                 snapLines, dragItems, lastEvent, nEvents, layoutVars, snapVars, formVars, hookVars>>

\* a diagram that is dragged on and then closed
TeardownNext ==
  \/ MeasureNodes
  \/ DragFrame
  \/ DragStop
  \/ TimerFire
  \/ SaveResolve
  \/ SaveReject
  \/ Unmount

SpecTeardown == Init /\ [][TeardownNext]_vars

\* the diagram with the NodeDetailPanel: drags, field edits, view toggles and
\* the responses of the service
EditNext ==
  \/ MeasureNodes
  \/ DragFrame
  \/ DragStop
  \/ TimerFire
  \/ NodeEdit
  \/ SaveResolve
  \/ SaveReject
  \/ SetViewMode

SpecEdit == Init /\ [][EditNext]_vars

\* ------------------------------------------------------------------------
\* The layout engine called on a specification
\* ------------------------------------------------------------------------

LayoutInit ==
  /\ lSpec \in LayoutSpecs
  /\ lMode \in ViewModes
  /\ lSaved = NoPositions
  /\ lResult = [nodes |-> <<>>, edges |-> <<>>]
  /\ lCall = "none"
  /\ SnapIdle
  /\ CtlIdle
  /\ FormIdle
  /\ HookIdle

\* buildDiagramLayout(spec, mode, undefined)
LayoutDefault ==
  /\ lCall = "none"
  /\ lSaved' = NoPositions
  /\ lResult' = buildDiagramLayout(lSpec, lMode, lSaved')
  /\ lCall' = "default"
  /\ UNCHANGED <<lSpec, lMode, snapVars, ctlVars, formVars, hookVars>>

\* buildDiagramLayout(spec, mode, {k: p}) for a node id k of the layout
LayoutOverride ==
  /\ lCall = "none"
  /\ \E k \in NodeIds(buildDiagramLayout(lSpec, lMode, NoPositions).nodes),
        p \in OverridePositions :
       lSaved' = [id \in {k} |-> p]
  /\ lResult' = buildDiagramLayout(lSpec, lMode, lSaved')
  /\ lCall' = "override"
  /\ UNCHANGED <<lSpec, lMode, snapVars, ctlVars, formVars, hookVars>>

\* buildDiagramLayout(spec, mode, computeAutoLayout(spec))
LayoutAuto ==
  /\ lCall = "none"
  /\ lSaved' = computeAutoLayout(lSpec)
  /\ lResult' = buildDiagramLayout(lSpec, lMode, lSaved')
  /\ lCall' = "auto"
  /\ UNCHANGED <<lSpec, lMode, snapVars, ctlVars, formVars, hookVars>>

\* the collections of a specification whose entries come and go
Collections ==
  {"input_channels", "dynamic_context", "guardrails", "tool_stack", "output_channels"}

\* the entries of a collection of a specification
EntriesOf(agentSpec, coll) ==
  IF coll \in {"dynamic_context", "guardrails"}
  THEN OrElse(OrElse(agentSpec, "prompt_requirements", [k \in {} |-> TRUE]), coll, <<>>)
  ELSE OrElse(agentSpec, coll, <<>>)

\* the specification without the last entry of a collection
WithoutLast(agentSpec, coll) ==
  LET kept == SubSeq(EntriesOf(agentSpec, coll), 1, Len(EntriesOf(agentSpec, coll)) - 1)
  IN  IF coll \in {"dynamic_context", "guardrails"}
      THEN With(agentSpec, "prompt_requirements",
                With(agentSpec.prompt_requirements, coll, kept))
      ELSE With(agentSpec, coll, kept)

\* saved positions of a second call: none, or one for a node the main row holds
SavedChoices ==
  {NoPositions} \cup {[id \in {k} |-> p] : k \in {"agent-s1", "input-0", "tool-0"},
                                          p \in OverridePositions}

\* buildDiagramLayout(spec', mode, saved) after the last entry of a collection
\* of spec has disappeared; lCall names the collection
LayoutWithout ==
  /\ lCall = "none"
  /\ \E coll \in Collections, saved \in SavedChoices :
       /\ Len(EntriesOf(lSpec, coll)) > 0
       /\ lSaved' = saved
       /\ lResult' = buildDiagramLayout(WithoutLast(lSpec, coll), lMode, saved)
       /\ lCall' = coll
  /\ UNCHANGED <<lSpec, lMode, snapVars, ctlVars, formVars, hookVars>>

LayoutNext == LayoutDefault \/ LayoutOverride \/ LayoutAuto \/ LayoutWithout

SpecLayout == LayoutInit /\ [][LayoutNext]_vars

\* ------------------------------------------------------------------------
\* The forms of the NodeDetailPanel on a specification
\* ------------------------------------------------------------------------

FormInit ==
  /\ fSpec \in FormSpecs
  /\ fNode = ""
  /\ fForm = NoForm
  /\ fState = [k \in {} |-> TRUE]
  /\ fTyped = [k \in {} |-> TRUE]
  /\ fPatch = [k \in {} |-> TRUE]
  /\ fEdits = <<>>
  /\ LayoutIdle
  /\ SnapIdle
  /\ CtlIdle
  /\ HookIdle

\* a double click on a node opens its form: useState of every field
OpenForm ==
  /\ fNode = ""
  /\ Len(fEdits) < MaxSaves
  /\ \E nodeId \in PanelNodeIds :
       /\ fNode' = nodeId
       /\ fForm' = NodeForm(nodeId)
       /\ fState' = IF NotFound(fSpec, NodeForm(nodeId)) THEN [k \in {} |-> TRUE]
                    ELSE FormState(fSpec, NodeForm(nodeId))
  /\ fTyped' = [k \in {} |-> TRUE]
  /\ UNCHANGED <<fSpec, fPatch, fEdits, layoutVars, snapVars, ctlVars, hookVars>>

\* the user edits one field of the open form: onChange of its input
EditField ==
  /\ fNode # ""
  /\ ~NotFound(fSpec, fForm)
  /\ DOMAIN fTyped = {}
  /\ \E e \in FieldEdits(fForm.kind) :
       /\ fState' = With(fState, e.field, e.value)
       /\ fTyped' = With(fTyped, e.field, e.value)
  /\ UNCHANGED <<fSpec, fNode, fForm, fPatch, fEdits, layoutVars, snapVars, ctlVars, hookVars>>

\* Save: handleSave builds the patch, onSave merges it into the specification
\* ({ ...current, ...patch } of handleNodeEdit), onClose closes the form
SaveForm ==
  /\ fNode # ""
  /\ ~NotFound(fSpec, fForm)
  /\ fPatch' = FormSave(fSpec, fForm, fState)
  /\ fSpec' = Merge(fSpec, fPatch')
  /\ fEdits' = Append(fEdits, [node |-> fNode, form |-> fForm, state |-> fState,
                               typed |-> fTyped, before |-> fSpec])
  /\ fNode' = ""
  /\ fForm' = NoForm
  /\ UNCHANGED <<fState, fTyped, layoutVars, snapVars, ctlVars, hookVars>>

\* the close button of the panel: onClose sets panelNodeId to null
ClosePanel ==
  /\ fNode # ""
  /\ fNode' = ""
  /\ fForm' = NoForm
  /\ UNCHANGED <<fSpec, fState, fTyped, fPatch, fEdits, layoutVars, snapVars, ctlVars, hookVars>>

FormNext == OpenForm \/ EditField \/ SaveForm \/ ClosePanel

SpecForms == FormInit /\ [][FormNext]_vars

\* ------------------------------------------------------------------------
\* The event-stream hook: mount, effect cleanup, socket events, reconnect
\* ------------------------------------------------------------------------

\* the hook after its first effect: mountedRef.current = true; connect()
SocketInit ==
  /\ hookMounted = TRUE
  /\ useCaseId \in UseCaseIds
  /\ mountedRef = TRUE
  /\ sockets = connect(TRUE, useCaseId, <<>>, 0).sockets
  /\ wsRef = connect(TRUE, useCaseId, <<>>, 0).wsRef
  /\ reconnectTimeoutRef = 0
  /\ wsTimers = {}
  /\ store = initialState
  /\ stRun = NoRun
  /\ wsLast = NoHandler
  /\ LayoutIdle
  /\ SnapIdle
  /\ CtlIdle
  /\ FormIdle

\* connect changes identity (useCaseId or a callback prop changed): the
\* cleanup of the effect runs and the effect runs again, in one commit
EffectRerun ==
  /\ hookMounted
  /\ Len(sockets) < MaxSockets
  /\ \E id \in UseCaseIds :
       /\ useCaseId' = id
       /\ sockets' = connect(TRUE, id, close(sockets, wsRef), 0).sockets
       /\ wsRef' = connect(TRUE, id, close(sockets, wsRef), 0).wsRef
  /\ mountedRef' = TRUE
  /\ wsTimers' = clearReconnect(wsTimers, reconnectTimeoutRef)
  /\ UNCHANGED <<hookMounted, reconnectTimeoutRef, store, stRun, wsLast,
                 layoutVars, snapVars, ctlVars, formVars>>

\* unmount: the cleanup of the effect
HookUnmount ==
  /\ hookMounted
  /\ hookMounted' = FALSE
  /\ mountedRef' = FALSE
  /\ wsTimers' = clearReconnect(wsTimers, reconnectTimeoutRef)
  /\ sockets' = close(sockets, wsRef)
  /\ wsRef' = 0
  /\ UNCHANGED <<useCaseId, reconnectTimeoutRef, store, stRun, wsLast,
                 layoutVars, snapVars, ctlVars, formVars>>

\* ws.onopen
SocketOpen ==
  \E i \in 1..Len(sockets) :
    /\ sockets[i].readyState = "CONNECTING"
    /\ sockets' = [sockets EXCEPT ![i].readyState = "OPEN"]
    /\ wsLast' = [n |-> wsLast.n + 1, socket |-> i, kind |-> "open", type |-> "none",
                  acted |-> mountedRef, cleaned |-> sockets[i].cleaned]
    /\ UNCHANGED <<hookMounted, useCaseId, mountedRef, wsRef, reconnectTimeoutRef,
                   wsTimers, store, stRun, layoutVars, snapVars, ctlVars, formVars>>

\* ws.onmessage of an open socket: handleEvent unless mountedRef is false
SocketMessage ==
  /\ wsLast.n < MaxStreamEvents
  /\ \E i \in 1..Len(sockets), event \in StreamEvents :
       /\ sockets[i].readyState = "OPEN"
       /\ store' = IF mountedRef THEN handleEvent(store, event) ELSE store
       /\ stRun' = IF ~mountedRef THEN stRun
                   ELSE IF event.type = "text_delta"
                   THEN [stRun EXCEPT !.deltas = Append(@, event.delta)]
                   ELSE IF event.type = "message_complete"
                   THEN [deltas |-> <<>>, pure |-> store'.streamingText = ""]
                   ELSE [stRun EXCEPT !.pure = FALSE]
       /\ wsLast' = [n |-> wsLast.n + 1, socket |-> i, kind |-> "message",
                     type |-> event.type, acted |-> mountedRef,
                     cleaned |-> sockets[i].cleaned]
  /\ UNCHANGED <<hookMounted, useCaseId, mountedRef, sockets, wsRef, reconnectTimeoutRef,
                 wsTimers, layoutVars, snapVars, ctlVars, formVars>>

\* ws.onclose: the server or the network ends the connection, or the close
\* that close() started completes
SocketClose ==
  \E i \in 1..Len(sockets) :
    /\ sockets[i].readyState \in {"CONNECTING", "OPEN", "CLOSING"}
    /\ sockets' = [sockets EXCEPT ![i].readyState = "CLOSED"]
    /\ wsLast' = [n |-> wsLast.n + 1, socket |-> i, kind |-> "close", type |-> "none",
                  acted |-> mountedRef, cleaned |-> sockets[i].cleaned]
    /\ IF mountedRef
       THEN /\ store' = setIsStreaming(store, FALSE)
            /\ stRun' = [stRun EXCEPT !.pure = FALSE]
            /\ reconnectTimeoutRef' = reconnectTimeoutRef + 1
            /\ wsTimers' = wsTimers \cup {[id |-> reconnectTimeoutRef + 1,
                                           useCaseId |-> sockets[i].useCaseId]}
       ELSE UNCHANGED <<store, stRun, reconnectTimeoutRef, wsTimers>>
    /\ UNCHANGED <<hookMounted, useCaseId, mountedRef, wsRef,
                   layoutVars, snapVars, ctlVars, formVars>>

\* the 3-second reconnect timer: if (mountedRef.current) connect(), with the
\* connect of the render that created the socket
ReconnectFire ==
  /\ Len(sockets) < MaxSockets
  /\ \E t \in wsTimers :
       /\ wsTimers' = wsTimers \ {t}
       /\ sockets' = connect(mountedRef, t.useCaseId, sockets, wsRef).sockets
       /\ wsRef' = connect(mountedRef, t.useCaseId, sockets, wsRef).wsRef
  /\ UNCHANGED <<hookMounted, useCaseId, mountedRef, reconnectTimeoutRef, store, stRun,
                 wsLast, layoutVars, snapVars, ctlVars, formVars>>

SocketNext ==
  EffectRerun \/ HookUnmount \/ SocketOpen \/ SocketMessage \/ SocketClose
    \/ ReconnectFire

SpecSocket == SocketInit /\ [][SocketNext]_vars

\* ------------------------------------------------------------------------
\* Properties of the forms
\* ------------------------------------------------------------------------

\* the fields of an entry that the form of a node kind writes on Save
EditedKeys(kind) ==
  CASE kind = "input"     -> {"name", "type", "description", "estimated_tokens_per_call"}
    [] kind = "dynamic"   -> {"name", "source", "estimated_tokens_per_call",
                              "cache_hit_pct", "fetch_frequency"}
    [] kind = "guardrail" -> {"description", "type", "estimated_tokens", "cache_hit_pct"}
    [] kind = "tool"      -> {"name", "type", "status", "build_effort",
                              "input_tokens_per_call", "output_tokens_per_call",
                              "output_cache_hit_pct", "connected_systems"}
    [] kind = "system"    -> {"name", "type", "node_prefix", "status"}
    [] OTHER              -> {"name", "type", "destination", "format",
                              "estimated_tokens", "latency_requirement_ms"}

\* the collection that owns the entry of a form, in a specification or a patch
OwningCollection(doc, form) ==
  CASE form.kind = "input"     -> doc.input_channels
    [] form.kind = "dynamic"   -> doc.prompt_requirements.dynamic_context
    [] form.kind = "guardrail" -> doc.prompt_requirements.guardrails
    [] form.kind = "tool"      -> doc.tool_stack
    [] form.kind = "system"    -> doc.tool_stack[form.index + 1].connected_systems
    [] OTHER                   -> doc.output_channels

\* the index of the entry of a form in its owning collection, counted from 1
EntryIndex(form) == IF form.kind = "system" THEN form.sysIndex + 1 ELSE form.index + 1

\* the last Save
LastEdit == fEdits[Len(fEdits)]

\* C12: the patch built on Save is a copy of the owning collection in which
\* only the entry at the node's index is replaced; that entry keeps every
\* field of the old entry that the form does not edit, and every other entry
\* of the collection is the same as before.
C12_PatchReplacesOneEntry ==
  (Len(fEdits) > 0 /\ LastEdit.form.kind \in IndexedKinds) =>
    LET old == OwningCollection(LastEdit.before, LastEdit.form)
        new == OwningCollection(fPatch, LastEdit.form)
        at  == EntryIndex(LastEdit.form)
    IN  /\ Len(new) = Len(old)
        /\ \A k \in 1..Len(old) : k # at => new[k] = old[k]
        /\ \A f \in DOMAIN old[at] \ EditedKeys(LastEdit.form.kind) :
             f \in DOMAIN new[at] /\ new[at][f] = old[at][f]

\* C13: changing only output_tokens_per_call of a tool with the tool form and
\* then setting it back to the original value with the tool form restores the
\* specification the first edit started from.
C13_ToolEditRoundTrip ==
  ( /\ Len(fEdits) = 2
    /\ fEdits[1].form.kind = "tool"
    /\ fEdits[2].form = fEdits[1].form
    /\ DOMAIN fEdits[1].typed = {"outputTok"}
    /\ DOMAIN fEdits[2].typed = {"outputTok"}
    /\ fEdits[1].typed.outputTok
         # FormEntry(fEdits[1].before, fEdits[1].form).output_tokens_per_call
    /\ fEdits[2].typed.outputTok
         = FormEntry(fEdits[1].before, fEdits[1].form).output_tokens_per_call )
  => fSpec = fEdits[1].before

\* ------------------------------------------------------------------------
\* Properties of the layout engine
\* ------------------------------------------------------------------------

\* the bounding boxes of two nodes share interior points
Overlap(a, b) ==
  /\ RLt(a.position.x, RAdd(b.position.x, Rat(b.width)))
  /\ RLt(b.position.x, RAdd(a.position.x, Rat(a.width)))
  /\ RLt(a.position.y, RAdd(b.position.y, Rat(b.height)))
  /\ RLt(b.position.y, RAdd(a.position.y, Rat(a.height)))

DefaultNodes == buildDiagramLayout(lSpec, lMode, NoPositions).nodes

\* C1: overlap-freedom.  In the result of a layout with no saved positions
\* no two distinct nodes have overlapping bounding boxes.
C1_OverlapFree ==
  lCall = "default" =>
    \A i, j \in 1..Len(lResult.nodes) :
      i < j => ~Overlap(lResult.nodes[i], lResult.nodes[j])

\* a default layout in which a stack of systems is taller than its tool and
\* is followed by another tool, with inputs, prompts and outputs present
C1_Witness ==
  /\ lCall = "default"
  /\ \E i, j, k \in 1..Len(lResult.nodes) :
       /\ lResult.nodes[i].id = "system-0-2"
       /\ lResult.nodes[j].id = "tool-1"
       /\ lResult.nodes[k].id = "prompt-guardrail-0"
  /\ "input-1" \in NodeIds(lResult.nodes)
  /\ "output-0" \in NodeIds(lResult.nodes)

\* C2: position stickiness.  With savedPositions = {k: p} node k is placed at
\* p, every other node at its default position, and every node keeps the
\* declared width and height of the default layout.
C2_Sticky ==
  lCall = "override" =>
    LET dflt == DefaultNodes
    IN  /\ Len(lResult.nodes) = Len(dflt)
        /\ \A i \in 1..Len(lResult.nodes) :
             LET n == lResult.nodes[i]
                 d == dflt[i]
             IN  /\ n.id = d.id
                 /\ n.width = d.width /\ n.height = d.height
                 /\ n.position = IF n.id \in DOMAIN lSaved THEN lSaved[n.id]
                                                            ELSE d.position

\* an override of a system node, away from its default position
C2_Witness ==
  /\ lCall = "override"
  /\ DOMAIN lSaved = {"system-1-0"}
  /\ LET dflt == DefaultNodes
     IN  \E i \in 1..Len(lResult.nodes) :
           /\ lResult.nodes[i].id = "system-1-0"
           /\ lResult.nodes[i].position = lSaved["system-1-0"]
           /\ dflt[i].position # lSaved["system-1-0"]

\* C3: auto-layout is a fixed point of layout-with-override, and the map of
\* computeAutoLayout has exactly one entry per node of the default layout.
C3_AutoFixedPoint ==
  lCall = "auto" =>
    LET dflt == DefaultNodes
    IN  /\ Len(lResult.nodes) = Len(dflt)
        /\ \A i \in 1..Len(lResult.nodes) :
             /\ lResult.nodes[i].id = dflt[i].id
             /\ lResult.nodes[i].position = dflt[i].position
        /\ DOMAIN lSaved = NodeIds(dflt)
        /\ Cardinality(DOMAIN lSaved) = Len(dflt)

\* auto-layout of a specification with nodes in every zone
C3_Witness ==
  /\ lCall = "auto"
  /\ {"prompt-system", "input-1", "tool-1", "system-1-2", "output-0"}
       \subseteq DOMAIN lSaved
  /\ lMode = "token_economics"

\* the node of the result with this id
LaidNode(id) == CHOOSE n \in SeqRange(lResult.nodes) : n.id = id

LaidTop(id)    == LaidNode(id).position.y
LaidBottom(id) == RAdd(LaidNode(id).position.y, Rat(LaidNode(id).height))
LaidMiddle(id) == RAdd(LaidNode(id).position.y, RDivI(Rat(LaidNode(id).height), 2))

LaidTools == OrElse(lSpec, "tool_stack", <<>>)
SystemsOf(ti) == Len(OrElse(LaidTools[ti], "connected_systems", <<>>))

ToolNodeId(ti)       == "tool-" \o ToString(ti - 1)
SystemNodeId(ti, si) == "system-" \o ToString(ti - 1) \o "-" \o ToString(si - 1)

\* height of a stack of k system nodes, and of the row of a tool that owns it
StackHeight(k) == IF k = 0 THEN 0 ELSE k * SYS_H + (k - 1) * SYS_V_GAP
RowHeight(k)   == IF StackHeight(k) > TOOL_H THEN StackHeight(k) ELSE TOOL_H

RECURSIVE ColumnHeight(_)
ColumnHeight(n) ==
  IF n = 0 THEN 0
  ELSE ColumnHeight(n - 1) + RowHeight(SystemsOf(n)) + (IF n > 1 THEN V_GAP ELSE 0)

\* top and bottom of the row of tool ti: the tool node and its system nodes
RowTop(ti) ==
  RMinOf({LaidTop(ToolNodeId(ti))}
         \cup {LaidTop(SystemNodeId(ti, si)) : si \in 1..SystemsOf(ti)})
RowBottom(ti) ==
  RMaxOf({LaidBottom(ToolNodeId(ti))}
         \cup {LaidBottom(SystemNodeId(ti, si)) : si \in 1..SystemsOf(ti)})

\* C14: geometry of the tool column in the default layout.  The row of a tool
\* with k systems is max(TOOL_H, k*SYS_H + (k-1)*SYS_V_GAP) high, consecutive
\* rows are V_GAP apart, so the column is as high as the sum of the rows plus
\* the gaps; the systems of a tool are stacked SYS_V_GAP apart and the middle
\* of the stack is the middle of the tool node; one tool with 3 systems gives
\* a column 3*SYS_H + 2*SYS_V_GAP high.
C14_ToolColumnGeometry ==
  (lCall = "default" /\ Len(LaidTools) > 0) =>
    LET n == Len(LaidTools)
    IN  /\ \A ti \in 1..n :
             /\ RSub(RowBottom(ti), RowTop(ti)) = Rat(RowHeight(SystemsOf(ti)))
             /\ ti > 1 => RowTop(ti) = RAdd(RowBottom(ti - 1), Rat(V_GAP))
             /\ \A si \in 2..SystemsOf(ti) :
                  LaidTop(SystemNodeId(ti, si))
                    = RAdd(LaidBottom(SystemNodeId(ti, si - 1)), Rat(SYS_V_GAP))
             /\ SystemsOf(ti) > 0 =>
                  RDivI(RAdd(LaidTop(SystemNodeId(ti, 1)),
                             LaidBottom(SystemNodeId(ti, SystemsOf(ti)))), 2)
                    = LaidMiddle(ToolNodeId(ti))
        /\ RSub(RowBottom(n), RowTop(1)) = Rat(ColumnHeight(n))
        /\ (n = 1 /\ SystemsOf(1) = 3) =>
             RSub(RowBottom(1), RowTop(1)) = Rat(3 * SYS_H + 2 * SYS_V_GAP)

\* a default layout of two tools, the first with a stack of 3 systems higher
\* than the tool node, whose middle is not the middle of the agent node
C14_Witness ==
  /\ lCall = "default"
  /\ Len(LaidTools) = 2
  /\ SystemsOf(1) = 3 /\ SystemsOf(2) = 0
  /\ LaidMiddle(ToolNodeId(1)) # LaidMiddle("agent-" \o lSpec.id)
  /\ LaidMiddle(SystemNodeId(1, 2)) = LaidMiddle(ToolNodeId(1))

\* the node ids the entries of a specification get: category and index only
EntryIds(agentSpec) ==
  LET pr == OrElse(agentSpec, "prompt_requirements", [k \in {} |-> TRUE])
      tools == OrElse(agentSpec, "tool_stack", <<>>)
  IN  {"agent-" \o agentSpec.id}
      \cup {"input-" \o ToString(i - 1) :
              i \in 1..Len(OrElse(agentSpec, "input_channels", <<>>))}
      \cup (IF "system_prompt" \in DOMAIN pr THEN {"prompt-system"} ELSE {})
      \cup {"prompt-dynamic-" \o ToString(i - 1) :
              i \in 1..Len(OrElse(pr, "dynamic_context", <<>>))}
      \cup (IF "few_shot_examples" \in DOMAIN pr THEN {"prompt-fewshot"} ELSE {})
      \cup {"prompt-guardrail-" \o ToString(i - 1) :
              i \in 1..Len(OrElse(pr, "guardrails", <<>>))}
      \cup {"tool-" \o ToString(ti - 1) : ti \in 1..Len(tools)}
      \cup UNION {{"system-" \o ToString(ti - 1) \o "-" \o ToString(si - 1) :
                     si \in 1..Len(OrElse(tools[ti], "connected_systems", <<>>))} :
                  ti \in 1..Len(tools)}
      \cup {"output-" \o ToString(i - 1) :
              i \in 1..Len(OrElse(agentSpec, "output_channels", <<>>))}

\* the number of entries of a specification that get a node
EntryCount(agentSpec) ==
  LET pr == OrElse(agentSpec, "prompt_requirements", [k \in {} |-> TRUE])
      tools == OrElse(agentSpec, "tool_stack", <<>>)
      sysCount[ti \in 0..Len(tools)] ==
        IF ti = 0 THEN 0
        ELSE sysCount[ti - 1] + Len(OrElse(tools[ti], "connected_systems", <<>>))
  IN  1 + Len(OrElse(agentSpec, "input_channels", <<>>))
        + (IF "system_prompt" \in DOMAIN pr THEN 1 ELSE 0)
        + Len(OrElse(pr, "dynamic_context", <<>>))
        + (IF "few_shot_examples" \in DOMAIN pr THEN 1 ELSE 0)
        + Len(OrElse(pr, "guardrails", <<>>))
        + Len(tools) + sysCount[Len(tools)]
        + Len(OrElse(agentSpec, "output_channels", <<>>))

\* the specification the result is the layout of
LaidSpec == IF lCall \in Collections THEN WithoutLast(lSpec, lCall) ELSE lSpec

\* C15: node ids are deterministic and unique.  Whatever the contents of the
\* entries, the view mode and the saved positions, the ids of a result are
\* the ids category and index give the entries of the specification, one node
\* per entry, and no two nodes of a result have the same id.
C15_NodeIdsUnique ==
  lCall # "none" =>
    /\ NodeIds(lResult.nodes) = EntryIds(LaidSpec)
    /\ Len(lResult.nodes) = EntryCount(LaidSpec)
    /\ \A i, j \in 1..Len(lResult.nodes) :
         lResult.nodes[i].id = lResult.nodes[j].id => i = j

\* a layout, with a saved position, of a dynamic-context entry and a guardrail
\* of the same index, and a tool and a system of the same index
C15_Witness ==
  /\ lCall = "override"
  /\ {"prompt-dynamic-0", "prompt-guardrail-0", "tool-0", "system-0-0"}
       \subseteq NodeIds(lResult.nodes)

\* the layout of the specification before the entry disappeared
FullNodes == buildDiagramLayout(lSpec, lMode, lSaved).nodes

\* the zone of the canvas the nodes of a collection are laid out in
ZoneOf(coll) ==
  CASE coll = "input_channels"  -> {"inputChannelNode"}
    [] coll = "tool_stack"      -> {"toolNode", "systemNode"}
    [] coll = "output_channels" -> {"outputChannelNode"}
    [] OTHER                    -> {"promptComponentNode"}

RECURSIVE ToolColumnHeight(_, _)
ToolColumnHeight(tools, n) ==
  IF n = 0 THEN 0
  ELSE ToolColumnHeight(tools, n - 1)
         + RowHeight(Len(OrElse(tools[n], "connected_systems", <<>>)))
         + (IF n > 1 THEN V_GAP ELSE 0)

\* top and height of the main row of a specification: the row starts below
\* the prompt row when there is one, and is as high as the highest of the
\* agent node, the input column and the tool column
MainRow(agentSpec) ==
  LET nIn   == Len(OrElse(agentSpec, "input_channels", <<>>))
      tools == OrElse(agentSpec, "tool_stack", <<>>)
      inH   == IF nIn = 0 THEN 0 ELSE nIn * INPUT_H + (nIn - 1) * V_GAP
      tlH   == ToolColumnHeight(tools, Len(tools))
      rowH  == MaxInt(AGENT_H, MaxInt(inH, tlH))
  IN  [top |-> IF EntryIds(agentSpec) \cap {"prompt-system", "prompt-fewshot",
                                            "prompt-dynamic-0", "prompt-guardrail-0"} # {}
               THEN PROMPT_TOP + PROMPT_H + PROMPT_TO_MAIN ELSE PROMPT_TOP,
       height |-> rowH]

\* C16 as claimed: every node of a zone that the change did not touch has
\* the same id, position and size in the layouts of the two specifications.
C16_UnchangedSubtreesStable ==
  lCall \in Collections =>
    \A n \in SeqRange(lResult.nodes) :
      n.type \notin ZoneOf(lCall) =>
        \E m \in SeqRange(FullNodes) :
          /\ m.id = n.id
          /\ m.position = n.position
          /\ m.width = n.width /\ m.height = n.height

\* C16, amended: every node the two layouts have in common has the same id,
\* type and size in both, and the same position when the saved positions
\* hold an entry for it; without an entry, a node of a zone that the change
\* did not touch has the same position when the main row has the same top
\* and height for both specifications.
C16_SavedSubtreesStable ==
  lCall \in Collections =>
    /\ NodeIds(lResult.nodes) \subseteq NodeIds(FullNodes)
    /\ \A n \in SeqRange(lResult.nodes) :
         \E m \in SeqRange(FullNodes) :
           /\ m.id = n.id /\ m.type = n.type
           /\ m.width = n.width /\ m.height = n.height
           /\ n.id \in DOMAIN lSaved =>
                m.position = n.position /\ n.position = lSaved[n.id]
           /\ ( /\ n.id \notin DOMAIN lSaved
                /\ n.type \notin ZoneOf(lCall)
                /\ MainRow(lSpec) = MainRow(WithoutLast(lSpec, lCall)) )
                => m.position = n.position

\* the second tool, with its stack of systems, disappears: the main row gets
\* lower, the agent node keeps its saved position and the first input
\* channel, which has none, moves
C16_Witness ==
  /\ lCall = "tool_stack"
  /\ DOMAIN lSaved = {"agent-s1"}
  /\ MainRow(lSpec) # MainRow(WithoutLast(lSpec, lCall))
  /\ \E n \in SeqRange(lResult.nodes), m \in SeqRange(FullNodes) :
       /\ n.id = "input-0" /\ m.id = "input-0"
       /\ m.position # n.position
  /\ \E n \in SeqRange(lResult.nodes), m \in SeqRange(FullNodes) :
       /\ n.id = "agent-s1" /\ m.id = "agent-s1"
       /\ m.position = n.position

\* ------------------------------------------------------------------------
\* Properties of the snap engine
\* ------------------------------------------------------------------------

\* the nodes of the canvas that are not dragged, in canvas order
SnapOthers == SelectSeq(sAll, LAMBDA n : n.id \notin NodeIds(sDragging))

\* every alignment pair of an axis: its place in iteration order (targets in
\* canvas order, then pair order), dragging value d, target value r, distance
SnapCandidates(axis) ==
  LET bbox   == getBBox(sDragging)
      others == SnapOthers
  IN  {LET pr == IF axis = "x" THEN xPairs(bbox, getEdges(others[o]))[k]
                               ELSE yPairs(bbox, getEdges(others[o]))[k]
       IN  [ord |-> (o - 1) * 5 + k, d |-> pr[1], r |-> pr[2],
            dist |-> RAbs(RSub(pr[1], pr[2]))] :
         o \in 1..Len(others), k \in 1..5}

Within(axis)   == {c \in SnapCandidates(axis) : RLt(c.dist, Rat(SNAP_THRESHOLD))}
FirstNearest(near) ==
  {c \in near : \A c2 \in near : \/ RLt(c.dist, c2.dist)
                                 \/ (c.dist = c2.dist /\ c.ord <= c2.ord)}
SnapLines(t)   == SelectSeq(sResult.lines, LAMBDA l : l.type = t)
SnapDelta(axis) == IF axis = "x" THEN sResult.snapDx ELSE sResult.snapDy
LineType(axis)  == IF axis = "x" THEN "v" ELSE "h"

\* C8: snap threshold boundary.  A snap is produced only by a pair strictly
\* closer than the threshold: when the nearest pair of an axis is exactly at
\* the threshold there is no line and no delta on that axis; when exactly one
\* pair is strictly closer, the delta is target minus dragging coordinate.
C8_ThresholdBoundary ==
  sCall = "snap" =>
    \A axis \in {"x", "y"} :
      LET cands == SnapCandidates(axis)
          near  == Within(axis)
      IN  /\ SnapLines(LineType(axis)) # <<>> =>
               RLt(RAbs(SnapDelta(axis)), Rat(SNAP_THRESHOLD))
          /\ (near = {} /\ \E c \in cands : c.dist = Rat(SNAP_THRESHOLD)) =>
               /\ SnapLines(LineType(axis)) = <<>>
               /\ SnapDelta(axis) = Rat(0)
          /\ Cardinality(near) = 1 =>
               \A c \in near :
                 /\ SnapDelta(axis) = RSub(c.r, c.d)
                 /\ SnapLines(LineType(axis)) = << [type |-> LineType(axis), pos |-> c.r] >>

\* on X the nearest pair is exactly at the threshold and nothing snaps, on Y
\* a single pair is inside the threshold and snaps by a non-zero delta
C8_Witness ==
  /\ sCall = "snap"
  /\ Within("x") = {}
  /\ \E c \in SnapCandidates("x") : c.dist = Rat(SNAP_THRESHOLD)
  /\ Cardinality(Within("y")) = 1
  /\ sResult.snapDx = Rat(0)
  /\ sResult.snapDy # Rat(0)

\* the nodes with every x (or every y) coordinate set to 0
ZeroX(ns) ==
  [i \in 1..Len(ns) |-> With(ns[i], "position", Pos(Rat(0), ns[i].position.y))]
ZeroY(ns) ==
  [i \in 1..Len(ns) |-> With(ns[i], "position", Pos(ns[i].position.x, Rat(0)))]

\* C9: per-axis guarantee and independence of the axes.  An axis with no
\* target or no pair strictly inside the threshold has delta 0 and no guide
\* line; the X result is the same whatever the Y coordinates are and vice
\* versa; a drag inside the threshold on X only gives exactly one line, a
\* vertical one, and snapDy = 0.
C9_AxisIndependence ==
  sCall = "snap" =>
    /\ \A axis \in {"x", "y"} :
         (Len(SnapOthers) = 0 \/ Within(axis) = {}) =>
           /\ SnapDelta(axis) = Rat(0)
           /\ SnapLines(LineType(axis)) = <<>>
    /\ LET flatY == computeSnapGuides(ZeroY(sDragging), ZeroY(sAll), Rat(SNAP_THRESHOLD))
           flatX == computeSnapGuides(ZeroX(sDragging), ZeroX(sAll), Rat(SNAP_THRESHOLD))
       IN  /\ sResult.snapDx = flatY.snapDx
           /\ SnapLines("v") = SelectSeq(flatY.lines, LAMBDA l : l.type = "v")
           /\ sResult.snapDy = flatX.snapDy
           /\ SnapLines("h") = SelectSeq(flatX.lines, LAMBDA l : l.type = "h")
    /\ (Len(SnapOthers) > 0 /\ Within("x") # {} /\ Within("y") = {}) =>
         /\ Len(sResult.lines) = 1
         /\ sResult.lines[1].type = "v"
         /\ sResult.snapDy = Rat(0)

\* a drag that aligns on X only, by a non-zero delta, with one vertical line
C9_Witness ==
  /\ sCall = "snap"
  /\ Within("x") # {}
  /\ Within("y") = {}
  /\ sResult.snapDx # Rat(0)
  /\ Len(sResult.lines) = 1
  /\ \E i, j \in 1..Len(sAll) : sAll[i].position.y # sAll[j].position.y

\* the pairs of an axis that win: strictly inside the threshold, of minimum
\* distance, and first in iteration order among those
SnapWinners(axis) == LET near == Within(axis) IN FirstNearest(near)

\* C10: snap winner.  Per axis the result is that of the pair of minimum
\* distance below the threshold over all non-dragged nodes and the five
\* pairs, the first in iteration order on ties: delta = target - dragging,
\* line position = target, dragging + delta = line position.
C10_SnapWinner ==
  sCall = "snap" =>
    \A axis \in {"x", "y"} :
      LET winners == SnapWinners(axis)
      IN
      /\ winners = {} =>
           SnapDelta(axis) = Rat(0) /\ SnapLines(LineType(axis)) = <<>>
      /\ \A c \in winners :
           /\ SnapDelta(axis) = RSub(c.r, c.d)
           /\ SnapLines(LineType(axis)) = << [type |-> LineType(axis), pos |-> c.r] >>
           /\ RAdd(c.d, SnapDelta(axis)) = SnapLines(LineType(axis))[1].pos

\* two pairs tie at the minimum distance with opposite deltas, against two
\* targets, and the first one in iteration order is the result
C10_Witness ==
  /\ sCall = "snap"
  /\ Len(SnapOthers) = 2
  /\ LET near == Within("x")
     IN
     \E c \in FirstNearest(near) :
       \E c2 \in near :
         /\ c2.dist = c.dist
         /\ c2.ord > c.ord
         /\ RSub(c2.r, c2.d) # RSub(c.r, c.d)
         /\ sResult.snapDx = RSub(c.r, c.d)

\* ------------------------------------------------------------------------
\* Properties of alignment and distribution
\* ------------------------------------------------------------------------

\* the step handled a click on a toolbar button of the group op
ClickOn(op) ==
  /\ lastEvent' # lastEvent \/ nEvents' # nEvents
  /\ lastEvent'.op = op

\* the step ran the handler of the group op on at least min selected nodes
Ran(op, min) ==
  /\ ClickOn(op)
  /\ lastEvent'.invoked
  /\ Len(Selected(nodes)) >= min

NodeOf(ns, id) == CHOOSE n \in SeqRange(ns) : n.id = id

SelectedIds(ns) == {n.id : n \in {m \in SeqRange(ns) : IsSelected(m)}}

\* leading edge, size, trailing edge and centre of a node along an axis
Lead(n, axis)   == IF axis = "x" THEN n.position.x ELSE n.position.y
Extent(n, axis) == IF axis = "x" THEN nw(n) ELSE nh(n)
Trail(n, axis)  == RAdd(Lead(n, axis), Rat(Extent(n, axis)))
Centre(n, axis) == RAdd(Lead(n, axis), RDivI(Rat(Extent(n, axis)), 2))

OtherAxis(axis) == IF axis = "x" THEN "y" ELSE "x"

AlignAxis(dir) == IF dir \in {"left", "centerX", "right"} THEN "x" ELSE "y"

\* the coordinate of node n that the direction dir makes common
AlignCoord(n, dir) ==
  CASE dir \in {"left", "top"}        -> Lead(n, AlignAxis(dir))
    [] dir \in {"right", "bottom"}    -> Trail(n, AlignAxis(dir))
    [] OTHER                          -> Centre(n, AlignAxis(dir))

\* the reference coordinate of dir in the bounding box of the nodes sel
AlignReference(sel, dir) ==
  LET lo == RMinOf({Lead(n, AlignAxis(dir)) : n \in sel})
      hi == RMaxOf({Trail(n, AlignAxis(dir)) : n \in sel})
  IN  CASE dir \in {"left", "top"}     -> lo
        [] dir \in {"right", "bottom"} -> hi
        [] OTHER                       -> RDivI(RAdd(lo, hi), 2)

\* C4: handleAlign(dir) on at least 2 selected nodes puts the coordinate that
\* dir names (left/right edge or centre x, top/bottom edge or centre y) of
\* every selected node on the reference taken from the bounding box the
\* selection had before, and leaves its coordinate on the other axis unchanged.
C4_AlignmentCorrect ==
  [][Ran("align", 2) =>
       LET dir == lastEvent'.arg
           ref == AlignReference({n \in SeqRange(nodes) : IsSelected(n)}, dir)
       IN  \A id \in SelectedIds(nodes) :
             /\ AlignCoord(NodeOf(nodes', id), dir) = ref
             /\ Lead(NodeOf(nodes', id), OtherAxis(AlignAxis(dir)))
                  = Lead(NodeOf(nodes, id), OtherAxis(AlignAxis(dir)))]_vars

\* an align right has just moved at least 2 selected nodes of different widths
\* and different left edges onto one right edge, and their save is in flight
C4_Witness ==
  /\ lastEvent = Event("align", "right", TRUE)
  /\ requests # <<>>
  /\ \E a \in SeqRange(nodes), b \in SeqRange(nodes) :
       /\ IsSelected(a) /\ IsSelected(b)
       /\ nw(a) # nw(b)
       /\ Lead(a, "x") # Lead(b, "x")
  /\ \A a \in SeqRange(nodes), b \in SeqRange(nodes) :
       IsSelected(a) /\ IsSelected(b) => Trail(a, "x") = Trail(b, "x")

DistributeAxis(dir) == IF dir = "h" THEN "x" ELSE "y"

\* the orders in which the ids can be listed
Orderings(ids) ==
  {ord \in [1..Cardinality(ids) -> ids] :
     \A i \in DOMAIN ord, j \in DOMAIN ord : ord[i] = ord[j] => i = j}

RECURSIVE SumExtent(_, _, _)
SumExtent(ns, ids, axis) ==
  IF ids = {} THEN 0
  ELSE LET id == CHOOSE id \in ids : TRUE
       IN  Extent(NodeOf(ns, id), axis) + SumExtent(ns, ids \ {id}, axis)

\* listed in the order ord, the nodes after are evenly spaced between the
\* first and the last node of before
EvenlySpaced(before, after, ord, axis) ==
  LET count == Len(ord)
      first == NodeOf(before, ord[1])
      last  == NodeOf(before, ord[count])
      span  == RSub(Trail(last, axis), Lead(first, axis))
      total == SumExtent(before, {ord[k] : k \in 1..count}, axis)
      gap   == Norm(span.n - total * span.d, span.d * (count - 1))
  IN  /\ \A k \in 1..(count - 1) :
           RLe(Lead(NodeOf(before, ord[k]), axis), Lead(NodeOf(before, ord[k + 1]), axis))
      /\ \A k \in 1..(count - 1) :
           RSub(Lead(NodeOf(after, ord[k + 1]), axis), Trail(NodeOf(after, ord[k]), axis)) = gap
      /\ Lead(NodeOf(after, ord[1]), axis) = Lead(first, axis)
      /\ Lead(NodeOf(after, ord[count]), axis) = Lead(last, axis)

C6_FrameOfAlignDistribute ==
  [][(ClickOn("align") \/ ClickOn("distribute")) =>
       /\ Len(nodes') = Len(nodes)
       /\ \A i \in 1..Len(nodes) :
            ~IsSelected(nodes[i]) =>
              /\ nodes'[i].id = nodes[i].id
              /\ nodes'[i].position = nodes[i].position
              /\ (nodes[i].id \in DOMAIN positionsRef') = (nodes[i].id \in DOMAIN positionsRef)
              /\ nodes[i].id \in DOMAIN positionsRef =>
                   positionsRef'[nodes[i].id] = positionsRef[nodes[i].id]]_vars

\* an align or distribute has just moved the selection while a node outside
\* the selection has no entry in the position map and another has one
C6_Witness ==
  /\ lastEvent.op \in {"align", "distribute"}
  /\ lastEvent.invoked
  /\ requests # <<>>
  /\ Cardinality(SelectedIds(nodes)) >= (IF lastEvent.op = "align" THEN 2 ELSE 3)
  /\ \E n \in SeqRange(nodes) : ~IsSelected(n) /\ n.id \notin DOMAIN positionsRef
  /\ \E n \in SeqRange(nodes) : ~IsSelected(n) /\ n.id \in DOMAIN positionsRef

\* C7: a click on align with fewer than 2 selected nodes, or on distribute
\* with fewer than 3, changes neither the rendered nodes nor the position
\* map, issues no request, leaves the pending debounce timer pending and the
\* busy flag as it was; and the toolbar runs handleAlign only when
\* selectionCount >= 2 and handleDistribute only when selectionCount >= 3.
C7_DegenerateSelectionNoOp ==
  [][/\ (\/ (ClickOn("align") /\ Len(Selected(nodes)) < 2)
          \/ (ClickOn("distribute") /\ Len(Selected(nodes)) < 3))
        => UNCHANGED <<nodes, edges, positionsRef, spec, requests, positionSaveTimer,
                       isSaving, serverSpec>>
     /\ (ClickOn("align") /\ lastEvent'.invoked) => selectionCount >= 2
     /\ (ClickOn("distribute") /\ lastEvent'.invoked) => selectionCount >= 3]_vars

\* handleAlign has just run with fewer than 2 selected nodes while the
\* debounce timer of a drag was pending: the timer is still pending and no
\* request was issued
C7_Witness ==
  /\ lastEvent.op = "align"
  /\ lastEvent.invoked
  /\ Len(Selected(nodes)) < 2
  /\ positionSaveTimer
  /\ requests = <<>>
  /\ ~isSaving

\* ------------------------------------------------------------------------
\* Properties of the persistence of positions
\* ------------------------------------------------------------------------

\* the step is a drag-stop
DragStopped ==
  /\ nEvents' = nEvents + 1
  /\ lastEvent'.op = "dragStop"

\* the step is the firing of the debounce timer
TimerFired ==
  /\ positionSaveTimer /\ ~positionSaveTimer'
  /\ nEvents' = nEvents
  /\ Len(requests') > Len(requests)

\* the step is the failure of request i
Rejected(i) ==
  /\ serverSpec' = serverSpec
  /\ requests' = RemoveAt(requests, i)

\* the request a step has sent
Sent == requests'[Len(requests')]

\* every node the step moved has its new position in the position map
MovedAreRecorded ==
  \A i \in 1..Len(nodes) :
    nodes'[i].position # nodes[i].position =>
      /\ nodes[i].id \in DOMAIN positionsRef'
      /\ positionsRef'[nodes[i].id] = nodes'[i].position

\* C17: at most one position-save timer is pending; a drag-stop cancels the
\* pending timer and starts a new one without sending anything; the firing of
\* the timer sends exactly one request, whose payload is the position map as
\* of the firing, which holds the final position of every node moved by the
\* drag-stops of the burst, and leaves no timer pending.
C17_DebouncedPersistence ==
  /\ [](liveTimers <= 1 /\ (positionSaveTimer <=> liveTimers = 1))
  /\ [][DragStopped => /\ requests' = requests
                       /\ positionSaveTimer'
                       /\ liveTimers' = 1]_vars
  /\ [][TimerFired => /\ burst.n >= 1
                      /\ requests' = Append(requests, Sent)
                      /\ Sent.kind = "positions"
                      /\ Sent.body = [node_positions |-> positionsRef]
                      /\ \A id \in DOMAIN burst.moved :
                           Sent.body.node_positions[id] = burst.moved[id]
                      /\ liveTimers' = 0]_vars

\* a burst of two drag-stops that moved two nodes has been followed by the
\* firing of the timer: one request is in flight and it carries the position map
C17_Witness ==
  /\ burst.n = 2
  /\ Cardinality(DOMAIN burst.moved) >= 2
  /\ lastEvent.op = "dragStop"
  /\ ~positionSaveTimer
  /\ Len(requests) = 1
  /\ requests[1].kind = "positions"
  /\ requests[1].body.node_positions = positionsRef

\* C19: after align or distribute the position map holds the new position of
\* every node the operation moved, and the persistence of the map is
\* debounced: no request is issued by the click, a timer is left pending.
C19_AlignDistributeDebounced ==
  [][(Ran("align", 2) \/ Ran("distribute", 3)) =>
       /\ MovedAreRecorded
       /\ requests' = requests
       /\ positionSaveTimer']_vars

\* C19 as the handlers have it: after align or distribute the position map
\* holds the new position of every node the operation moved, the pending
\* debounce timer is cancelled and one request carrying the whole position
\* map is issued at once.
C19_AlignDistributeSavedAtOnce ==
  [][(Ran("align", 2) \/ Ran("distribute", 3)) =>
       /\ MovedAreRecorded
       /\ requests' = Append(requests, Sent)
       /\ Sent.body = [node_positions |-> positionsRef']
       /\ ~positionSaveTimer'
       /\ liveTimers' = 0]_vars

\* an align has just moved a node while the timer of a drag-stop was pending:
\* the timer is gone and the one request in flight carries the dragged and
\* the aligned positions
C19_Witness ==
  /\ lastEvent.op = "align"
  /\ lastEvent.invoked
  /\ burst.n = 1
  /\ ~positionSaveTimer
  /\ liveTimers = 0
  /\ Len(requests) = 1
  /\ requests[1].before = burst.before
  /\ requests[1].body.node_positions = positionsRef
  /\ \A id \in DOMAIN burst.moved : positionsRef[id] = burst.moved[id]
  /\ \E id \in DOMAIN positionsRef \ DOMAIN burst.moved :
       id \notin DOMAIN burst.before \/ burst.before[id] # positionsRef[id]

\* C20: when a request that persists the position map fails, the position map
\* is the one held before the change the request was to persist, every
\* rendered node with an entry in that map sits at its entry, the saving
\* indicator is clear, and nothing is sent or scheduled again.
C20_RollbackOnFailedSave ==
  [][\A i \in 1..Len(requests) :
       (Rejected(i) /\ requests[i].kind \in {"positions", "autoLayout"}) =>
         /\ positionsRef' = requests[i].before
         /\ \A n \in SeqRange(nodes') :
              n.id \in DOMAIN requests[i].before =>
                n.position = requests[i].before[n.id]
         /\ ~isSaving'
         /\ positionSaveTimer' = positionSaveTimer]_vars

\* ------------------------------------------------------------------------
\* Properties of field edits and of re-layouts
\* ------------------------------------------------------------------------

\* the step is a Save of the panel
NodeEdited ==
  /\ nEvents' = nEvents + 1
  /\ lastEvent'.op = "edit"

\* two specifications with the same fields and, but for node_positions, the
\* same values
SameButPositions(a, b) ==
  /\ DOMAIN a = DOMAIN b
  /\ \A k \in DOMAIN a \ {"node_positions"} : a[k] = b[k]

\* C11: handleNodeEdit first replaces the local specification with the
\* pre-edit specification merged with the patch and submits the patch; when
\* the request succeeds the local specification becomes the one the service
\* returned, which holds every field of the patch; when it fails the local
\* specification is the pre-edit specification captured when the edit
\* started (its position map being the object the drags write into); no
\* other specification is the outcome.
C11_EditAllOrNothing ==
  [][/\ NodeEdited =>
          /\ requests' = Append(requests, Sent)
          /\ Sent.kind = "edit"
          /\ Sent.current = spec
          /\ spec' = Merge(spec, Sent.body)
          /\ \A k \in DOMAIN Sent.body : spec'[k] = Sent.body[k]
          /\ \A k \in DOMAIN spec \ DOMAIN Sent.body : spec'[k] = spec[k]
     /\ \A i \in 1..Len(requests) :
          (requests' = RemoveAt(requests, i) /\ requests[i].kind = "edit") =>
            \/ /\ serverSpec' # serverSpec
               /\ spec' = serverSpec'
               /\ \A k \in DOMAIN requests[i].body : spec'[k] = requests[i].body[k]
            \/ /\ serverSpec' = serverSpec
               /\ SameButPositions(spec', requests[i].current)
               /\ "node_positions" \in DOMAIN spec' =>
                    spec'.node_positions \in {requests[i].current.node_positions,
                                              positionsRef}]_vars

\* a field edit has failed: the request is gone, the service never stored
\* anything, and the local specification has the name the edit replaced
C11_Witness ==
  /\ lastEvent.op = "edit"
  /\ requests = <<>>
  /\ ~isSaving
  /\ serverSpec.updated_at = MountBase.updated_at
  /\ spec.input_channels = MountBase.input_channels
  /\ spec.tool_stack = MountBase.tool_stack

\* the step rebuilt the layout: the re-sync effect or the view-mode effect
Relaid ==
  \/ spec'.updated_at # spec.updated_at
  \/ viewMode' # viewMode

\* every rendered node with an entry in the position map sits at its entry
PlacedAtEntries(ns, positions) ==
  \A n \in SeqRange(ns) : n.id \in DOMAIN positions => n.position = positions[n.id]

\* C18: a drag-stop records the final position of every dragged node in the
\* position map; no response of the service, field edit or view-mode toggle
\* changes the map; and every re-layout, whatever triggered it, places each
\* node that has an entry in the map at that entry, so a node sits at its
\* final dragged position whenever no drag is in flight.
C18_DragSurvivesRelayout ==
  /\ [](dragItems = NoPositions => PlacedAtEntries(nodes, positionsRef))
  /\ [][DragStopped =>
          \A id \in DOMAIN dragItems \cap NodeIds(nodes) :
            /\ id \in DOMAIN positionsRef'
            /\ positionsRef'[id] = NodeOf(nodes', id).position]_vars
  /\ [][~DragStopped => positionsRef' = positionsRef]_vars
  /\ [][Relaid => PlacedAtEntries(nodes', positionsRef)]_vars

\* the response to a field edit has triggered a re-layout while the save of
\* an earlier drag is still waiting for its timer: the service has not seen
\* the dragged position, and the node sits there
C18_Witness ==
  /\ lastEvent.op = "edit"
  /\ spec.updated_at # MountBase.updated_at
  /\ positionSaveTimer
  /\ burst.n >= 1
  /\ \E id \in DOMAIN burst.moved :
       /\ NodeOf(nodes, id).position = burst.moved[id]
       /\ \/ id \notin DOMAIN OrElse(spec, "node_positions", NoPositions)
          \/ spec.node_positions[id] # burst.moved[id]

\* ------------------------------------------------------------------------
\* Properties of a drag
\* ------------------------------------------------------------------------

\* the step is a frame of a drag
DragFramed ==
  /\ dragItems' # NoPositions
  /\ dragItems' # dragItems \/ nodes' # nodes

\* what a frame added to the position React Flow proposed for a node
FrameDelta(id) ==
  Pos(RSub(NodeOf(nodes', id).position.x, dragItems'[id].x),
      RSub(NodeOf(nodes', id).position.y, dragItems'[id].y))

\* C21: on every drag frame the position applied to rendered state for each
\* dragged node is its proposed position plus one delta shared by all
\* co-dragged nodes, and the position written to the position map at drag end
\* for each moved node is the node's position in rendered state at release.
C21_SnappedPositionIsState ==
  /\ [][DragFramed =>
          \A a \in DOMAIN dragItems', b \in DOMAIN dragItems' :
            FrameDelta(a) = FrameDelta(b)]_vars
  /\ [][DragStopped =>
          \A id \in DOMAIN dragItems \cap NodeIds(nodes) :
            /\ id \in DOMAIN positionsRef'
            /\ positionsRef'[id] = NodeOf(nodes, id).position
            /\ NodeOf(nodes', id).position = NodeOf(nodes, id).position]_vars

\* ------------------------------------------------------------------------
\* Properties of the specification object
\* ------------------------------------------------------------------------

\* the step ran a handler that calls no onSpecUpdated: a drag-stop, a click on
\* the toolbar, auto-layout up to its await, the view-mode toggle
HandledLocally ==
  /\ nEvents' # nEvents \/ lastEvent' # lastEvent
  /\ lastEvent'.op \in {"dragStop", "align", "distribute", "autoLayout", "viewMode"}

\* C22: no handler of the controller changes a field of the specification it
\* received: drag-stop, align, distribute, auto-layout and the view-mode
\* toggle leave the specification, its node_positions included, as it was,
\* and the specification restored by a failed field edit equals the one
\* captured when the edit started.
C22_SpecificationImmutable ==
  /\ [][HandledLocally => spec' = spec]_vars
  /\ [][\A i \in 1..Len(requests) :
          (Rejected(i) /\ requests[i].kind = "edit") =>
            spec' = requests[i].current]_vars

\* ------------------------------------------------------------------------
\* Properties of the teardown
\* ------------------------------------------------------------------------

\* C23: once the component is unmounted no position-save timer is pending,
\* and no step after the unmount issues a persistence request.
C23_TeardownClearsTimer ==
  /\ [](~mounted => ~positionSaveTimer)
  /\ [][~mounted => Len(requests') <= Len(requests)]_vars

\* ------------------------------------------------------------------------
\* Properties of the requests in flight
\* ------------------------------------------------------------------------

\* C24: isSaving is true when at least one persistence request of the
\* controller is outstanding and false when none is.
C24_BusyFlagTracksRequests == isSaving <=> requests # <<>>

\* C25: once no request is outstanding the local specification is the
\* document the service holds: the one returned by the most recent successful
\* response, or the mount-time specification if none succeeded.  Stated apart
\* from node_positions, which drags write into the local document directly.
C25_QuiescentConsistency ==
  requests = <<>> => SameButPositions(spec, serverSpec)

\* ------------------------------------------------------------------------
\* Properties of auto-layout
\* ------------------------------------------------------------------------

\* the step ran handleAutoLayout
AutoLaidOut ==
  /\ nEvents' = nEvents + 1
  /\ lastEvent'.op = "autoLayout"

\* the position buildDiagramLayout gives a node when nothing is saved
DefaultPosition(id) ==
  NodeOf(buildDiagramLayout(spec, viewMode, NoPositions).nodes, id).position

\* C26: handleAutoLayout cancels the pending debounced save, replaces the
\* whole position map by computeAutoLayout of the current specification,
\* renders every node at its default position and sends that map; the map
\* changes afterwards only by a drag-stop, an align, a distribute or another
\* auto-layout, and every position request sent carries the map as it is
\* when the request is sent.
C26_AutoLayoutDiscardsOverrides ==
  /\ [][AutoLaidOut =>
          /\ ~positionSaveTimer'
          /\ liveTimers' = 0
          /\ positionsRef' = computeAutoLayout(spec)
          /\ \A n \in SeqRange(nodes') : n.position = DefaultPosition(n.id)
          /\ Len(requests') = Len(requests) + 1
          /\ Sent.kind = "autoLayout"]_vars
  /\ [][(Len(requests') > Len(requests) /\ Sent.kind # "edit") =>
          Sent.body = [node_positions |-> positionsRef']]_vars
  /\ [][positionsRef' # positionsRef =>
          /\ nEvents' = nEvents + 1
          /\ lastEvent'.op \in {"dragStop", "align", "distribute", "autoLayout"}]_vars

\* auto-layout has run while the save of a drag was waiting for its timer: the
\* timer is gone, the dragged position is no longer in the map, and the one
\* request in flight carries the auto-layout map
C26_Witness ==
  /\ lastEvent.op = "autoLayout"
  /\ burst.n >= 1
  /\ ~positionSaveTimer
  /\ liveTimers = 0
  /\ Len(requests) = 1
  /\ requests[1].kind = "autoLayout"
  /\ requests[1].before = burst.before
  /\ requests[1].body.node_positions = positionsRef
  /\ \E id \in DOMAIN burst.moved : positionsRef[id] # burst.moved[id]

\* ------------------------------------------------------------------------
\* Properties of the panel on a node id that resolves to no entry
\* ------------------------------------------------------------------------

\* the panel is open on a node id that no entry of the specification has
PanelUnresolved == fNode # "" /\ fNode \notin EntryIds(fSpec)

\* C27: when the node id of the open panel resolves to no entry of the
\* specification (an index out of range, or prompt-system or prompt-fewshot
\* with no such block), the panel shows no form, no patch is submitted and
\* the specification does not change.
C27_UnresolvedNodeChangesNothing ==
  /\ [](PanelUnresolved => DOMAIN fState = {})
  /\ [][PanelUnresolved => (fSpec' = fSpec /\ fPatch' = fPatch /\ fEdits' = fEdits)]_vars

\* ------------------------------------------------------------------------
\* Properties of the decoding of node ids
\* ------------------------------------------------------------------------

\* the systems of the tools from ti on, tool by tool, as the forms of their entries
RECURSIVE SystemOrigins(_, _)
SystemOrigins(tools, ti) ==
  IF ti > Len(tools) THEN <<>>
  ELSE [si \in 1..Len(OrElse(tools[ti], "connected_systems", <<>>)) |->
          Form("system", ti - 1, si - 1)]
       \o SystemOrigins(tools, ti + 1)

\* the entries of a specification that get a node of a type, in the order the
\* layout walks them, each as the form and the indices that edit it
OriginsOf(agentSpec, type) ==
  LET pr == OrElse(agentSpec, "prompt_requirements", [k \in {} |-> TRUE])
      tools == OrElse(agentSpec, "tool_stack", <<>>)
  IN  CASE type = "agentNode" -> << Form("agent", 0, 0) >>
        [] type = "inputChannelNode" ->
             [i \in 1..Len(OrElse(agentSpec, "input_channels", <<>>)) |->
                Form("input", i - 1, 0)]
        [] type = "promptComponentNode" ->
             (IF "system_prompt" \in DOMAIN pr THEN << Form("systemPrompt", 0, 0) >>
              ELSE <<>>)
             \o [i \in 1..Len(OrElse(pr, "dynamic_context", <<>>)) |->
                   Form("dynamic", i - 1, 0)]
             \o (IF "few_shot_examples" \in DOMAIN pr THEN << Form("fewShot", 0, 0) >>
                 ELSE <<>>)
             \o [i \in 1..Len(OrElse(pr, "guardrails", <<>>)) |->
                   Form("guardrail", i - 1, 0)]
        [] type = "toolNode" -> [ti \in 1..Len(tools) |-> Form("tool", ti - 1, 0)]
        [] type = "systemNode" -> SystemOrigins(tools, 1)
        [] type = "outputChannelNode" ->
             [i \in 1..Len(OrElse(agentSpec, "output_channels", <<>>)) |->
                Form("output", i - 1, 0)]

NodeTypes ==
  {"agentNode", "inputChannelNode", "promptComponentNode", "toolNode", "systemNode",
   "outputChannelNode"}

\* the number of nodes of the type of node k among the first k nodes of the result
RankInType(k) ==
  Cardinality({j \in 1..k : lResult.nodes[j].type = lResult.nodes[k].type})

\* C30: for every node buildDiagramLayout emits for a specification, the
\* panel's decoding of the node's id selects the form of the node's type and
\* the indices of the entry the node was built from (the entry of that rank
\* among the entries of its type), and that entry exists, so the panel shows
\* its form and not the not-found state.
C30_NodeIdDecodingRoundTrip ==
  lCall # "none" =>
    /\ \A k \in 1..Len(lResult.nodes) :
         /\ lResult.nodes[k].type \in NodeTypes
         /\ RankInType(k) <= Len(OriginsOf(LaidSpec, lResult.nodes[k].type))
         /\ NodeForm(lResult.nodes[k].id)
              = OriginsOf(LaidSpec, lResult.nodes[k].type)[RankInType(k)]
         /\ ~NotFound(LaidSpec, NodeForm(lResult.nodes[k].id))
    /\ \A type \in NodeTypes :
         Cardinality({k \in 1..Len(lResult.nodes) : lResult.nodes[k].type = type})
           = Len(OriginsOf(LaidSpec, type))

\* a result with the node of a second system of a second tool, a guardrail
\* and an input channel
C30_Witness ==
  /\ lCall # "none"
  /\ \E k \in 1..Len(lResult.nodes) :
       /\ lResult.nodes[k].type = "systemNode"
       /\ NodeForm(lResult.nodes[k].id).index >= 1
       /\ NodeForm(lResult.nodes[k].id).sysIndex >= 1
  /\ \E k \in 1..Len(lResult.nodes) : NodeForm(lResult.nodes[k].id).kind = "guardrail"
  /\ \E k \in 1..Len(lResult.nodes) : NodeForm(lResult.nodes[k].id).kind = "input"

\* ------------------------------------------------------------------------
\* Properties of the event-stream hook and its store
\* ------------------------------------------------------------------------

\* the sockets the hook created that are connecting or open
LiveSockets == {i \in 1..Len(sockets) : sockets[i].readyState \in {"CONNECTING", "OPEN"}}

\* C28: at most one socket created by the hook is connecting or open at any
\* time, and no handler of a socket that the effect cleanup closed gets past
\* its mounted check (to handle an event, change the store or schedule a
\* reconnect).
C28_SingleLiveConnection ==
  /\ Cardinality(LiveSockets) <= 1
  /\ ~(wsLast.acted /\ wsLast.cleaned)

\* s1 \o s2 \o ... of a sequence of strings
RECURSIVE Concat(_)
Concat(texts) == IF texts = <<>> THEN "" ELSE texts[1] \o Concat(Tail(texts))

\* this step handles a message_complete event that follows one or more
\* text_delta events, the streaming text having been empty before them
CompletesRun ==
  /\ wsLast'.n # wsLast.n
  /\ wsLast'.type = "message_complete"
  /\ wsLast'.acted
  /\ stRun.pure
  /\ Len(stRun.deltas) > 0

\* C29: after a message_complete event that follows a sequence of text_delta
\* events (empty deltas included) the store has isStreaming = false and an
\* empty streamingText, and exactly one assistant message holding the
\* concatenated deltas was appended when that text is not empty, none
\* otherwise.
C29_CompletionResetsStreaming ==
  [][CompletesRun =>
       /\ store'.isStreaming = FALSE
       /\ store'.streamingText = ""
       /\ store'.chatMessages
            = IF Concat(stRun.deltas) = "" THEN store.chatMessages
              ELSE Append(store.chatMessages,
                          [id |-> "m1", role |-> "assistant",
                           text |-> Concat(stRun.deltas), streaming |-> FALSE])]_vars

====
